---- MODULE Spec2Model ----
(***************************************************************************)
(* The task plans of AFQ/tasks/mapping.py and AFQ/tasks/segmentation.py:   *)
(* named outputs computed on demand from their declared inputs, cached as  *)
(* files under results_dir, and reused when the file already exists.       *)
(*                                                                         *)
(* Strings that the code formats, joins or splits are sequences of tokens; *)
(* "/" and "." are tokens of their own, so that op.join, op.split and      *)
(* str.split('.') are computed, not assumed.  An optional value is a       *)
(* sequence of length 0 (None) or 1.                                       *)
(***************************************************************************)
EXTENDS Integers, Sequences, FiniteSets, TLC

VARIABLES
    subses_dict,   \* the subject/session identity: dwi_file and results_dir
    cfg,           \* the caller's configuration of the current session
    kwargs,        \* the keyword arguments after the plan was built
    plan,          \* the plan of the session: key -> task
    mem,           \* the session's lazy map: output name -> value already computed
    disk,          \* the filesystem: path -> content
    cyclic,        \* the plan's tasks depend on each other in a cycle
    nsess,         \* sessions started so far
    req,           \* the output name of the last request
    ret,           \* the value the last request returned
    err,           \* the error the last request raised
    log,           \* the tasks the last request executed, in order
    comp,          \* the underlying computations the last request invoked
    wrote,         \* the paths the last request wrote
    earlier,       \* the file outputs of the session before, if its parameters were the same
    before,        \* the value an earlier identical request returned, or None
    made           \* path -> the content first written there, and how often it was written

vars == <<subses_dict, cfg, kwargs, plan, cyclic, mem, disk, nsess,
          req, ret, err, log, comp, wrote, earlier, before, made>>

\* ------------------------------------------------------------------------
\* Bounds

MaxSessions == 2

\* ------------------------------------------------------------------------
\* Strings and paths

None == <<>>
Some(v) == <<v>>
IsNone(o) == Len(o) = 0
Get(o) == o[1]

EmptyMap == [x \in {} |-> <<>>]

Put(f, k, v) == [x \in DOMAIN f \cup {k} |-> IF x = k THEN v ELSE f[x]]

\* dict.update(): the entries of g replace or extend those of f
Merge(f, g) == [x \in DOMAIN f \cup DOMAIN g |-> IF x \in DOMAIN g THEN g[x] ELSE f[x]]

\* all sequences over set s of length at most n
RECURSIVE SeqsUpTo(_, _)
SeqsUpTo(s, n) ==
    IF n = 0 THEN { <<>> }
    ELSE SeqsUpTo(s, n - 1)
           \cup { Append(q, x) : q \in { r \in SeqsUpTo(s, n - 1) : Len(r) = n - 1 }, x \in s }

\* s.split('.')[0]: the text before the first '.'
RECURSIVE SplitDot0(_)
SplitDot0(s) ==
    IF Len(s) = 0 \/ Head(s) = "." THEN <<>>
    ELSE <<Head(s)>> \o SplitDot0(Tail(s))

\* op.split(p)[1]: the text after the last '/'
Basename(p) ==
    IF \E i \in 1..Len(p) : p[i] = "/"
    THEN LET k == CHOOSE i \in 1..Len(p) :
                     p[i] = "/" /\ \A j \in (i + 1)..Len(p) : p[j] # "/"
         IN SubSeq(p, k + 1, Len(p))
    ELSE p

\* op.join(a, b) for a relative b
Join(a, b) == a \o <<"/">> \o b

\* str(i) for the small integers the code formats
IntStr(i) == <<"0", "1", "2", "3", "4", "5">>[i + 1]

\* get_fname(subses_dict, suffix, tracking_params=None, segmentation_params=None)
get_fname(sd, suffix, tracking_params, segmentation_params) ==
    LET split_fdwi == Basename(sd.dwi_file)
        fname0 == Join(sd.results_dir, SplitDot0(split_fdwi))
        fname1 == IF ~IsNone(tracking_params)
                     /\ "odf_model" \in DOMAIN Get(tracking_params)
                  THEN fname0 \o <<"_space-RASMM_model-", Get(tracking_params).odf_model,
                                   "_desc-", Get(tracking_params).directions>>
                  ELSE fname0
        fname2 == IF ~IsNone(segmentation_params)
                     /\ "seg_algo" \in DOMAIN Get(segmentation_params)
                  THEN fname1 \o <<"-", Get(segmentation_params).seg_algo>>
                  ELSE fname1
    IN fname2 \o suffix

\* ------------------------------------------------------------------------
\* Subject/session identities and configurations

Subjects ==
    { [dwi_file    |-> <<"/", "bids", "/", "sub-01_dwi", ".", "nii", ".", "gz">>,
       results_dir |-> <<"/", "afq", "/", "sub-01">>] }

\* data_imap["bundle_dict"]: the bundles in dictionary order
BundleDictA ==
    << [name |-> "CST_L", ROIs |-> <<"roi_a", "roi_b">>, rules |-> <<TRUE, TRUE>>, uid |-> 1] >>
BundleDictB ==
    << [name |-> "CST_L", ROIs |-> <<"roi_a", "roi_c">>, rules |-> <<TRUE, TRUE>>, uid |-> 1],
       [name |-> "ARC_L", ROIs |-> <<"roi_d">>, rules |-> <<FALSE>>, uid |-> 2] >>

\* a bundle dictionary with the whole-brain entry of the atlas, which has no ROIs
BundleDictW ==
    << [name |-> "CST_L", ROIs |-> <<"roi_a", "roi_c">>, rules |-> <<TRUE, TRUE>>, uid |-> 1],
       [name |-> "whole_brain", ROIs |-> <<>>, rules |-> <<>>, uid |-> 0],
       [name |-> "ARC_L", ROIs |-> <<"roi_d">>, rules |-> <<FALSE>>, uid |-> 2] >>

\* a scalar is a string or a scalar Definition with a name
StrScalar(n) == [kind |-> "str", name |-> n]
DefScalar(n) == [kind |-> "def", name |-> n]

\* the parameters and imaps a caller hands to a plan
AllSupplied ==
    {"subses_dict", "data_imap", "bids_info", "dwi_affine", "tractography_imap",
     "mapping_imap", "tracking_params", "segmentation_params", "clean_params",
     "profile_weights", "mapping_definition", "scalars"}

KnobValues ==
    [ use_sls |-> BOOLEAN,
      tracking_params |-> { [odf_model |-> "DTI", directions |-> "det"],
                            [odf_model |-> "CSD", directions |-> "det"] },
      segmentation_params |-> { None, Some([seg_algo |-> "reco"]) },
      clean_params |-> { None, Some([clean_rounds |-> 3]) },
      profile_weights |-> {"gauss", "median"},
      mapping_definition |-> { None, Some([name |-> "AffMap"]) },
      bundle_dict |-> {BundleDictA, BundleDictB},
      scalars |-> { <<StrScalar("dti_fa"), StrScalar("dti_md")>>,
                    <<StrScalar("dti_FA"), DefScalar("t1")>>,
                    <<DefScalar("t1"), DefScalar("t2")>> },
      supplied |-> { AllSupplied,
                     AllSupplied \ {"tractography_imap"},
                     AllSupplied \ {"data_imap"} } ]

\* the parameters that sessions of a plan vary
KnobsOf(plan_kind) ==
    CASE plan_kind = "mapping" ->
           {"mapping_definition", "bundle_dict", "use_sls", "scalars", "supplied"}
      [] plan_kind = "segmentation" ->
           {"tracking_params", "segmentation_params", "clean_params", "profile_weights",
            "scalars"}
      [] OTHER -> {}

DefaultCfg ==
    [ plan_kind |-> "mapping",
      use_sls |-> FALSE,
      tracking_params |-> [odf_model |-> "DTI", directions |-> "det"],
      segmentation_params |-> None,
      clean_params |-> None,
      profile_weights |-> "gauss",
      mapping_definition |-> None,
      bundle_dict |-> BundleDictA,
      scalars |-> <<StrScalar("dti_fa"), StrScalar("dti_md")>>,
      supplied |-> AllSupplied ]

\* the configurations of a first session: one per plan, and the mapping plan
\* also with use_sls
InitialCfgs ==
    { [DefaultCfg EXCEPT !.plan_kind = k] : k \in {"mapping", "segmentation", "cyclic"} }
      \cup { [DefaultCfg EXCEPT !.use_sls = TRUE] }

\* the configurations that differ from c in at most one parameter
Neighbours(c) ==
    {c} \cup UNION { { [c EXCEPT ![k] = v] : v \in KnobValues[k] } : k \in KnobsOf(c.plan_kind) }

\* ------------------------------------------------------------------------
\* Tasks: the function, its arguments in order, those with a default, its output

Task(fn, inputs, defaults, output) ==
    [fn |-> fn, inputs |-> inputs, defaults |-> defaults, output |-> output]

\* f"{name}_file"
FileKey ==
    [ t1 |-> "t1_file", t2 |-> "t2_file",
      dti_fa |-> "dti_fa_file", dti_md |-> "dti_md_file" ]

\* str.lower()
Lower ==
    [ dti_fa |-> "dti_fa", dti_md |-> "dti_md", dti_FA |-> "dti_fa", dti_MD |-> "dti_md",
      t1 |-> "t1", t2 |-> "t2",
      gauss |-> "gauss", Gauss |-> "gauss", median |-> "median", MEDIAN |-> "median",
      mean |-> "mean", Mean |-> "mean" ]

ScalarTaskName == [ t1 |-> "scalar_t1", t2 |-> "scalar_t2" ]

export_registered_b0_task ==
    Task("export_registered_b0", <<"subses_dict", "data_imap", "mapping">>, {},
         "b0_warped_file")
template_xform_task ==
    Task("template_xform", <<"subses_dict", "dwi_affine", "mapping", "data_imap">>, {},
         "template_xform_file")
\* export_rois without its mapping argument
export_rois_task_no_mapping ==
    Task("export_rois", <<"subses_dict", "data_imap", "dwi_affine">>, {}, "rois_file")
\* export_rois with the warped b0 as one more argument
export_rois_task_with_b0 ==
    Task("export_rois",
         <<"subses_dict", "data_imap", "mapping", "dwi_affine", "b0_warped_file">>, {},
         "rois_file")
export_rois_task ==
    Task("export_rois", <<"subses_dict", "data_imap", "mapping", "dwi_affine">>, {},
         "rois_file")
mapping_task ==
    Task("mapping",
         <<"subses_dict", "reg_subject", "data_imap", "bids_info", "mapping_definition">>,
         {"mapping_definition"}, "mapping")
\* sls_mapping without its tractography_imap argument
sls_mapping_task_no_tractography ==
    Task("sls_mapping",
         <<"subses_dict", "reg_subject", "data_imap", "bids_info", "mapping_definition">>,
         {"mapping_definition"}, "mapping")
sls_mapping_task ==
    Task("sls_mapping",
         <<"subses_dict", "reg_subject", "data_imap", "bids_info", "tractography_imap",
           "mapping_definition">>,
         {"mapping_definition"}, "mapping")
get_reg_subject_task ==
    Task("get_reg_subject",
         <<"data_imap", "bids_info", "subses_dict", "dwi_affine", "reg_subject_spec">>,
         {"reg_subject_spec"}, "reg_subject")
\* pimms.calc(f"{scalar.name}_file")(scalar.get_for_subses())
scalar_task(scalar) ==
    Task(ScalarTaskName[scalar.name], <<"subses_dict", "dwi_affine">>, {},
         FileKey[scalar.name])

segment_task ==
    Task("segment",
         <<"subses_dict", "data_imap", "mapping_imap", "tractography_imap",
           "tracking_params", "segmentation_params">>, {}, "bundles_file")
clean_bundles_task ==
    Task("clean_bundles",
         <<"subses_dict", "bundles_file", "data_imap", "tracking_params",
           "segmentation_params", "clean_params">>, {"clean_params"}, "clean_bundles_file")
export_bundles_task ==
    Task("export_bundles",
         <<"subses_dict", "clean_bundles_file", "bundles_file", "data_imap",
           "tracking_params", "segmentation_params">>, {}, "indiv_bundles")
export_sl_counts_task ==
    Task("export_sl_counts",
         <<"subses_dict", "data_imap", "clean_bundles_file", "bundles_file",
           "tracking_params", "segmentation_params">>, {}, "sl_counts_file")
tract_profiles_task ==
    Task("tract_profiles",
         <<"subses_dict", "clean_bundles_file", "data_imap", "scalar_dict", "dwi_affine",
           "tracking_params", "segmentation_params", "profile_weights">>,
         {"profile_weights"}, "profiles_file")
get_scalar_dict_task ==
    Task("get_scalar_dict", <<"data_imap", "mapping_imap", "scalars">>, {"scalars"},
         "scalar_dict")

\* a plan whose first two tasks each need the other's output
cyclic_tasks ==
    << Task("task_a", <<"subses_dict", "out_b">>, {}, "out_a"),
       Task("task_b", <<"out_a">>, {}, "out_b"),
       Task("task_c", <<"subses_dict">>, {}, "out_c") >>

\* ------------------------------------------------------------------------
\* Plans

\* f"{task.function.__name__}_res"
ResKey ==
    [ export_registered_b0 |-> "export_registered_b0_res",
      template_xform |-> "template_xform_res",
      export_rois |-> "export_rois_res",
      mapping |-> "mapping_res",
      sls_mapping |-> "sls_mapping_res",
      get_reg_subject |-> "get_reg_subject_res",
      segment |-> "segment_res",
      clean_bundles |-> "clean_bundles_res",
      export_bundles |-> "export_bundles_res",
      export_sl_counts |-> "export_sl_counts_res",
      tract_profiles |-> "tract_profiles_res",
      get_scalar_dict |-> "get_scalar_dict_res",
      task_a |-> "task_a_res", task_b |-> "task_b_res", task_c |-> "task_c_res" ]

\* with_name(task_list): {f"{task.function.__name__}_res": task}
RECURSIVE with_name(_)
with_name(task_list) ==
    IF Len(task_list) = 0 THEN EmptyMap
    ELSE Put(with_name(SubSeq(task_list, 1, Len(task_list) - 1)),
             ResKey[task_list[Len(task_list)].fn], task_list[Len(task_list)])

\* the key under which get_mapping_plan registers a custom scalar's task:
\* the string "{scalar.name}_file_res", which is not an f-string
ScalarResKey(scalar) == "{scalar.name}_file_res"

\* the loop of get_mapping_plan over kwargs["scalars"]
RECURSIVE add_custom_scalars(_, _)
add_custom_scalars(mapping_tasks, scalars) ==
    IF Len(scalars) = 0 THEN mapping_tasks
    ELSE LET scalar == Head(scalars)
             added == IF scalar.kind = "def"
                      THEN Put(mapping_tasks, ScalarResKey(scalar), scalar_task(scalar))
                      ELSE mapping_tasks
         IN add_custom_scalars(added, Tail(scalars))

\* get_mapping_plan registering sls_mapping under its own name
get_mapping_plan_sls_added(kw, use_sls) ==
    LET mapping_tasks == with_name(<<export_registered_b0_task, template_xform_task,
                                     export_rois_task, mapping_task, get_reg_subject_task>>)
        with_scalars == add_custom_scalars(mapping_tasks, kw.scalars)
    IN IF use_sls THEN Put(with_scalars, "sls_mapping_res", sls_mapping_task)
       ELSE with_scalars

get_mapping_plan(kw, use_sls) ==
    LET mapping_tasks == with_name(<<export_registered_b0_task, template_xform_task,
                                     export_rois_task, mapping_task, get_reg_subject_task>>)
        with_scalars == add_custom_scalars(mapping_tasks, kw.scalars)
    IN IF use_sls THEN Put(with_scalars, "mapping_res", sls_mapping_task)
       ELSE with_scalars

\* get_default_args(seg.Segmentation.__init__)
default_seg_params == [seg_algo |-> "AFQ", return_idx |-> FALSE]

get_segmentation_plan(kw) ==
    with_name(<<get_scalar_dict_task, export_sl_counts_task, export_bundles_task,
                clean_bundles_task, segment_task, tract_profiles_task>>)

\* what get_segmentation_plan leaves in kwargs["segmentation_params"]
get_segmentation_plan_kwargs(kw) ==
    [kw EXCEPT !.segmentation_params =
        Some(IF IsNone(kw.segmentation_params) THEN default_seg_params
             ELSE Merge(default_seg_params, Get(kw.segmentation_params)))]

\* the plan and the keyword arguments of a session configured by c
BuildPlan(c) ==
    CASE c.plan_kind = "mapping" -> get_mapping_plan(c, c.use_sls)
      [] c.plan_kind = "segmentation" -> get_segmentation_plan(c)
      [] OTHER -> with_name(cyclic_tasks)

BuildKwargs(c) ==
    IF c.plan_kind = "segmentation" THEN get_segmentation_plan_kwargs(c) ELSE c

\* the output names a plan exposes
PlanOutputs(p) == { p[k].output : k \in DOMAIN p }

\* the task of plan p that produces name (the plans here have one per name)
Producer(p, name) == p[CHOOSE k \in DOMAIN p : p[k].output = name]

\* ------------------------------------------------------------------------
\* Resolution of a requested output

Err(kind, name) == [kind |-> kind, name |-> name]
NoErr == Err("none", "")

\* the tasks of ks that cannot be put in an order: those left after taking away,
\* again and again, every task none of whose inputs is produced by a task left
RECURSIVE Unordered(_, _)
Unordered(p, ks) ==
    LET free == { k \in ks : \A i \in 1..Len(p[k].inputs) :
                                \A j \in ks : p[j].output # p[k].inputs[i] }
    IN IF free = {} THEN ks ELSE Unordered(p, ks \ free)

HasCycle(p) == Unordered(p, DOMAIN p) # {}

\* the tasks to execute for name, each after the producers of its inputs, in the
\* order of the arguments; values already in the lazy map m are not recomputed
RECURSIVE Visit(_, _, _, _)
RECURSIVE VisitAll(_, _, _, _)
Visit(p, m, name, acc) ==
    IF \/ name \in DOMAIN m
       \/ name \notin PlanOutputs(p)
       \/ \E i \in 1..Len(acc) : acc[i].output = name
    THEN acc
    ELSE Append(VisitAll(p, m, Producer(p, name).inputs, acc), Producer(p, name))
VisitAll(p, m, names, acc) ==
    IF Len(names) = 0 THEN acc
    ELSE VisitAll(p, m, Tail(names), Visit(p, m, Head(names), acc))

Schedule(p, m, target) == Visit(p, m, target, <<>>)

\* the inputs of the scheduled tasks that nothing provides, in order
RECURSIVE MissingOf(_, _, _)
MissingOf(p, supplied, names_defaults) ==
    IF Len(names_defaults) = 0 THEN <<>>
    ELSE LET n == Head(names_defaults)[1]
             d == Head(names_defaults)[2]
             rest == MissingOf(p, supplied, Tail(names_defaults))
         IN IF n \in PlanOutputs(p) \/ n \in supplied \/ d THEN rest ELSE <<n>> \o rest

RECURSIVE InputsOf(_)
InputsOf(sched) ==
    IF Len(sched) = 0 THEN <<>>
    ELSE [i \in 1..Len(Head(sched).inputs) |->
             <<Head(sched).inputs[i], Head(sched).inputs[i] \in Head(sched).defaults>>]
         \o InputsOf(Tail(sched))

Missing(p, supplied, sched) == MissingOf(p, supplied, InputsOf(sched))

\* a resolver that finds a cycle only when the requested output is part of it
ResolveCycleWhenReached(p, is_cyclic, m, supplied, target) ==
    IF is_cyclic /\ \E k \in Unordered(p, DOMAIN p) : p[k].output = target
    THEN [err |-> Err("cyclic plan", ""), sched |-> <<>>]
    ELSE IF target \notin PlanOutputs(p)
    THEN [err |-> Err("unknown output", target), sched |-> <<>>]
    ELSE LET sched == Schedule(p, m, target)
             missing == Missing(p, supplied, sched)
         IN IF Len(missing) > 0
            THEN [err |-> Err("unresolvable dependency", Head(missing)), sched |-> <<>>]
            ELSE [err |-> NoErr, sched |-> sched]

\* the schedule of a request, or the error raised before any task runs
Resolve(p, is_cyclic, m, supplied, target) ==
    IF is_cyclic THEN [err |-> Err("cyclic plan", ""), sched |-> <<>>]
    ELSE IF target \notin PlanOutputs(p)
    THEN [err |-> Err("unknown output", target), sched |-> <<>>]
    ELSE LET sched == Schedule(p, m, target)
             missing == Missing(p, supplied, sched)
         IN IF Len(missing) > 0
            THEN [err |-> Err("unresolvable dependency", Head(missing)), sched |-> <<>>]
            ELSE [err |-> NoErr, sched |-> sched]

\* ------------------------------------------------------------------------
\* Files

\* what a file was computed from: per parameter, None or the value used
DepKeys ==
    {"tracking_params", "segmentation_params", "clean_params", "profile_weights",
     "scalars", "mapping_definition", "bundle_dict", "roi"}
NoDeps == [k \in DepKeys |-> None]
With(deps, k, v) == [deps EXCEPT ![k] = Some(v)]

Content(by, kind, deps, meta) == [by |-> by, kind |-> kind, deps |-> deps, meta |-> meta]

\* a failure of the environment (an I/O error, an interrupt) that strikes a step
\* of export_rois at one ROI; partial: the file being written is left incomplete
Fault(bundle, ii, step, partial) ==
    [bundle |-> bundle, ii |-> ii, step |-> step, partial |-> partial]
NoFault == Fault("", 0, "none", FALSE)

\* the state a resolution works on; timing: what time() - start_time comes to
World(d, m) ==
    [disk |-> d, mem |-> m, log |-> <<>>, comp |-> <<>>, wrote |-> {}, err |-> NoErr,
     fault |-> NoFault, timing |-> 1]

Write(w, path, content) ==
    [w EXCEPT !.disk = Put(@, path, content), !.wrote = @ \cup {path}]

Invoke(w, fn, what) == [w EXCEPT !.comp = Append(@, [task |-> fn, what |-> what])]

\* the task has run and the lazy map holds its value
Done(w, t, val) == [w EXCEPT !.mem = Put(@, t.output, val), !.log = Append(@, t.fn)]

Fail(w, t, e) == [w EXCEPT !.err = e, !.log = Append(@, t.fn)]

\* an exception raised inside a task's body
Raise(w, e) == [w EXCEPT !.err = e]

\* as_file writing the time the computation took into the file itself
as_file_stamped(w, sd, t, suffix, tracking_params, segmentation_params, deps, meta) ==
    LET this_file == get_fname(sd, suffix, tracking_params, segmentation_params)
        meta_fname == get_fname(sd, SplitDot0(suffix) \o <<".", "json">>,
                                tracking_params, segmentation_params)
    IN IF this_file \in DOMAIN w.disk
       THEN Done(w, t, <<this_file>>)
       ELSE Done(Write(Write(Invoke(w, t.fn, <<>>),
                             this_file, Content(t.fn, "data", deps, [Timing |-> w.timing])),
                       meta_fname, Content(t.fn, "meta", deps, meta)),
                 t, <<this_file>>)

\* as_file(suffix, include_track, include_seg): the file exists, or the wrapped
\* function runs and its result and metadata are saved
as_file(w, sd, t, suffix, tracking_params, segmentation_params, deps, meta) ==
    LET this_file == get_fname(sd, suffix, tracking_params, segmentation_params)
        meta_fname == get_fname(sd, SplitDot0(suffix) \o <<".", "json">>,
                                tracking_params, segmentation_params)
    IN IF this_file \in DOMAIN w.disk
       THEN Done(w, t, <<this_file>>)
       ELSE Done(Write(Write(Invoke(w, t.fn, <<>>),
                             this_file, Content(t.fn, "data", deps, EmptyMap)),
                       meta_fname, Content(t.fn, "meta", deps, meta)),
                 t, <<this_file>>)

\* ------------------------------------------------------------------------
\* The tasks of the mapping plan

\* mapping_definition, or SynMap() when it is None
EffectiveMapping(kw) ==
    IF IsNone(kw.mapping_definition) THEN [name |-> "SynMap"]
    ELSE Get(kw.mapping_definition)

\* what the session's mapping was computed from
MappingDeps(kw) == With(NoDeps, "mapping_definition", EffectiveMapping(kw))

export_registered_b0(w, sd, kw) ==
    as_file(w, sd, export_registered_b0_task, <<"_b0_in_MNI", ".", "nii", ".", "gz">>,
            None, None, MappingDeps(kw), [b0InSubject |-> "b0_file"])

template_xform(w, sd, kw) ==
    as_file(w, sd, template_xform_task, <<"_template_xform", ".", "nii", ".", "gz">>,
            None, None, MappingDeps(kw), EmptyMap)

\* the name of a ROI's file with the ROI counted from 0
RoiFnameFromZero(sd, bundle, ii) ==
    LET inclusion == IF bundle.rules[ii + 1] THEN "include" ELSE "exclude"
        rois_dir == Join(sd.results_dir, <<"ROIs">>)
        fname == Basename(get_fname(sd,
                     <<"_desc-ROI-", bundle.name, "-", IntStr(ii), "-", inclusion,
                       ".", "nii", ".", "gz">>, None, None))
    IN Join(rois_dir, fname)

\* the name of the file of ROI ii (from 0) of a bundle
RoiFname(sd, bundle, ii) ==
    LET inclusion == IF bundle.rules[ii + 1] THEN "include" ELSE "exclude"
        rois_dir == Join(sd.results_dir, <<"ROIs">>)
        fname == Basename(get_fname(sd,
                     <<"_desc-ROI-", bundle.name, "-", IntStr(ii + 1), "-", inclusion,
                       ".", "nii", ".", "gz">>, None, None))
    IN Join(rois_dir, fname)

\* export_rois without its check that the ROI's file exists
ExportRoiAlways(w, sd, kw, bundle, ii) ==
    LET fname == RoiFname(sd, bundle, ii)
        meta_fname == SplitDot0(fname) \o <<".", "json">>
        deps == With(MappingDeps(kw), "roi", bundle.ROIs[ii + 1])
    IN Write(Write(Invoke(w, "export_rois", <<bundle.name, IntStr(ii + 1)>>),
                   fname, Content("export_rois", "data", deps, EmptyMap)),
             meta_fname, Content("export_rois", "meta", deps, EmptyMap))

\* one pass of the inner loop of export_rois: the ROI is warped and saved with
\* its sidecar unless its file exists; a step that fails raises, and a write that
\* fails leaves nothing or an incomplete file
ExportRoi(w, sd, kw, bundle, ii) ==
    LET fname == RoiFname(sd, bundle, ii)
        meta_fname == SplitDot0(fname) \o <<".", "json">>
        deps == With(MappingDeps(kw), "roi", bundle.ROIs[ii + 1])
        failing == IF w.fault.bundle = bundle.name /\ w.fault.ii = ii
                   THEN w.fault.step ELSE "none"
        warped == Invoke(w, "export_rois", <<bundle.name, IntStr(ii + 1)>>)
        saved == Write(warped, fname, Content("export_rois", "data", deps, EmptyMap))
    IN IF fname \notin DOMAIN w.disk
       THEN CASE failing = "transform_inverse_roi" ->
                     Raise(warped, Err("IOError", "transform_inverse_roi"))
              [] failing = "nib.save" ->
                     Raise(IF w.fault.partial
                           THEN Write(warped, fname,
                                      Content("export_rois", "partial", deps, EmptyMap))
                           ELSE warped,
                           Err("IOError", "nib.save"))
              [] failing = "write_json" ->
                     Raise(IF w.fault.partial
                           THEN Write(saved, meta_fname,
                                      Content("export_rois", "partial", deps, EmptyMap))
                           ELSE saved,
                           Err("IOError", "write_json"))
              [] OTHER ->
                     Write(saved, meta_fname, Content("export_rois", "meta", deps, EmptyMap))
       ELSE w

\* the loops of export_rois from ROI ii of bundle b on: the world and roi_files,
\* the dictionary bundle -> list of paths as (bundle, paths) pairs in order
RECURSIVE ExportRoisFrom(_, _, _, _, _, _)
ExportRoisFrom(w, sd, kw, b, ii, roi_files) ==
    LET bundle_dict == kw.bundle_dict
        started == IF ii = 0 THEN Append(roi_files, <<bundle_dict[b].name, <<>>>>)
                   ELSE roi_files
    IN IF b > Len(bundle_dict) \/ w.err # NoErr THEN [w |-> w, roi_files |-> roi_files]
       ELSE IF ii >= Len(bundle_dict[b].ROIs)
       THEN ExportRoisFrom(w, sd, kw, b + 1, 0, started)
       ELSE ExportRoisFrom(ExportRoi(w, sd, kw, bundle_dict[b], ii), sd, kw, b, ii + 1,
                           [started EXCEPT ![Len(started)][2] =
                               Append(@, RoiFname(sd, bundle_dict[b], ii))])

export_rois(w, sd, kw) ==
    LET r == ExportRoisFrom(w, sd, kw, 1, 0, <<>>)
    IN IF r.w.err # NoErr THEN Fail(r.w, export_rois_task, r.w.err)
       ELSE Done(r.w, export_rois_task, r.roi_files)

\* a custom scalar's task: the scalar Definition's own code, which returns a path
ScalarFile(w, sd, t) ==
    Done(w, t, << get_fname(sd, <<"_model-", t.output, ".", "nii", ".", "gz">>, None, None) >>)

\* ------------------------------------------------------------------------
\* The tasks of the segmentation plan

\* get_default_args(seg.clean_bundle)
default_clean_params == [clean_rounds |-> 5, return_idx |-> FALSE]

\* the clean parameters clean_bundles passes on: defaults overridden by clean_params
EffectiveClean(kw) ==
    IF IsNone(kw.clean_params) THEN default_clean_params
    ELSE Merge(default_clean_params, Get(kw.clean_params))

segment(w, sd, kw) ==
    as_file(w, sd, segment_task, <<"_tractography", ".", "trk">>,
            Some(kw.tracking_params), kw.segmentation_params,
            With(With(With(MappingDeps(kw),
                 "tracking_params", kw.tracking_params),
                 "segmentation_params", Get(kw.segmentation_params)),
                 "bundle_dict", kw.bundle_dict),
            IF Get(kw.segmentation_params).return_idx
            THEN [source |-> "streamlines_file", Parameters |-> Get(kw.segmentation_params),
                  idx |-> "idx", Timing |-> w.timing]
            ELSE [source |-> "streamlines_file", Parameters |-> Get(kw.segmentation_params),
                  Timing |-> w.timing])

\* with return_idx, clean_bundles reads the indices that segment left in the
\* sidecar of bundles_file; the wrapper runs it only when its file does not exist
clean_bundles(w, sd, kw) ==
    LET bundles_file == w.mem["bundles_file"][1]
        this_file == get_fname(sd, <<"-clean_tractography", ".", "trk">>,
                               Some(kw.tracking_params), kw.segmentation_params)
        idx_file == SplitDot0(bundles_file) \o <<".", "json">>
        reads_idx == /\ this_file \notin DOMAIN w.disk
                     /\ EffectiveClean(kw).return_idx
                     /\ \E b \in 1..Len(kw.bundle_dict) :
                           kw.bundle_dict[b].name # "whole_brain"
    IN IF reads_idx /\ idx_file \notin DOMAIN w.disk
       THEN Fail(Invoke(w, "clean_bundles", <<>>), clean_bundles_task,
                 Err("FileNotFoundError", "idx_file"))
       ELSE IF reads_idx /\ "idx" \notin DOMAIN w.disk[idx_file].meta
       THEN Fail(Invoke(w, "clean_bundles", <<>>), clean_bundles_task,
                 Err("KeyError", "idx"))
       ELSE as_file(w, sd, clean_bundles_task, <<"-clean_tractography", ".", "trk">>,
               Some(kw.tracking_params), kw.segmentation_params,
               With(w.disk[bundles_file].deps, "clean_params", EffectiveClean(kw)),
               IF EffectiveClean(kw).return_idx
               THEN [source |-> bundles_file, Parameters |-> default_clean_params,
                     idx |-> "return_idx", Timing |-> w.timing]
               ELSE [source |-> bundles_file, Parameters |-> default_clean_params,
                     Timing |-> w.timing])

\* export_bundles naming its files without the segmentation parameters
BundleFnameNoSeg(sd, kw, folder, bundle) ==
    LET bundles_dir == Join(sd.results_dir, <<folder>>)
        fname == Basename(get_fname(sd, <<"-", bundle.name, "_tractography", ".", "trk">>,
                                    Some(kw.tracking_params), None))
    IN Join(bundles_dir, fname)

\* the name of the file export_bundles writes for a bundle in a folder
BundleFname(sd, kw, folder, bundle) ==
    LET bundles_dir == Join(sd.results_dir, <<folder>>)
        fname == Basename(get_fname(sd, <<"-", bundle.name, "_tractography", ".", "trk">>,
                                    Some(kw.tracking_params), kw.segmentation_params))
    IN Join(bundles_dir, fname)

\* one pass of the inner loop of export_bundles: the bundle's streamlines are
\* saved with their sidecar
ExportBundle(w, sd, kw, this_bundles_file, folder, bundle) ==
    LET fname == BundleFname(sd, kw, folder, bundle)
        meta_fname == SplitDot0(fname) \o <<".", "json">>
        deps == w.disk[this_bundles_file].deps
    IN IF bundle.name # "whole_brain"
       THEN Write(Write(Invoke(w, "export_bundles", <<folder, bundle.name>>),
                        fname, Content("export_bundles", "data", deps, EmptyMap)),
                  meta_fname,
                  Content("export_bundles", "meta", deps, [source |-> this_bundles_file]))
       ELSE w

RECURSIVE ExportBundlesFrom(_, _, _, _, _, _)
ExportBundlesFrom(w, sd, kw, this_bundles_file, folder, b) ==
    IF b > Len(kw.bundle_dict) THEN w
    ELSE ExportBundlesFrom(
             ExportBundle(w, sd, kw, this_bundles_file, folder, kw.bundle_dict[b]),
             sd, kw, this_bundles_file, folder, b + 1)

export_bundles(w, sd, kw) ==
    LET clean_bundles_file == w.mem["clean_bundles_file"][1]
        bundles_file == w.mem["bundles_file"][1]
        w1 == ExportBundlesFrom(w, sd, kw, clean_bundles_file, "clean_bundles", 1)
        w2 == ExportBundlesFrom(w1, sd, kw, bundles_file, "bundles", 1)
    IN Done(w2, export_bundles_task, <<>>)

export_sl_counts(w, sd, kw) ==
    LET clean_bundles_file == w.mem["clean_bundles_file"][1]
        bundles_file == w.mem["bundles_file"][1]
    IN as_file(w, sd, export_sl_counts_task, <<"_sl_count", ".", "csv">>,
               Some(kw.tracking_params), kw.segmentation_params,
               w.disk[clean_bundles_file].deps,
               [sources |-> <<clean_bundles_file, bundles_file>>])

\* get_default_args(afq_profile)
default_profile_params == [n_points |-> 100, weights |-> None]

tract_profiles(w, sd, kw) ==
    LET clean_bundles_file == w.mem["clean_bundles_file"][1]
    IN as_file(w, sd, tract_profiles_task, <<"_profiles", ".", "csv">>,
               Some(kw.tracking_params), kw.segmentation_params,
               With(With(w.disk[clean_bundles_file].deps,
                    "profile_weights", kw.profile_weights),
                    "scalars", w.mem["scalar_dict"]),
               [source |-> clean_bundles_file, parameters |-> default_profile_params])

\* scalar_dict[key] = value: a key already present keeps its place
DictSet(d, key, value) ==
    IF \E i \in 1..Len(d) : d[i][1] = key
    THEN [i \in 1..Len(d) |-> IF d[i][1] = key THEN <<key, value>> ELSE d[i]]
    ELSE Append(d, <<key, value>>)

\* get_scalar_dict keeping the case of a string scalar's name
RECURSIVE ScalarDictFromAsWritten(_, _, _)
ScalarDictFromAsWritten(scalars, mapping_outputs, scalar_dict) ==
    IF Len(scalars) = 0 THEN [err |-> NoErr, scalar_dict |-> scalar_dict]
    ELSE LET scalar == Head(scalars)
         IN IF scalar.kind = "str"
            THEN ScalarDictFromAsWritten(Tail(scalars), mapping_outputs,
                     DictSet(scalar_dict, scalar.name,
                             <<"data_imap", FileKey[Lower[scalar.name]]>>))
            ELSE IF FileKey[scalar.name] \in mapping_outputs
            THEN ScalarDictFromAsWritten(Tail(scalars), mapping_outputs,
                     DictSet(scalar_dict, scalar.name,
                             <<"mapping_imap", FileKey[scalar.name]>>))
            ELSE [err |-> Err("KeyError", FileKey[scalar.name]), scalar_dict |-> scalar_dict]

\* the loop of get_scalar_dict: the dictionary as (name, file) pairs, or the key
\* that mapping_imap does not hold
RECURSIVE ScalarDictFrom(_, _, _)
ScalarDictFrom(scalars, mapping_outputs, scalar_dict) ==
    IF Len(scalars) = 0 THEN [err |-> NoErr, scalar_dict |-> scalar_dict]
    ELSE LET scalar == Head(scalars)
         IN IF scalar.kind = "str"
            THEN ScalarDictFrom(Tail(scalars), mapping_outputs,
                     DictSet(scalar_dict, Lower[scalar.name],
                             <<"data_imap", FileKey[Lower[scalar.name]]>>))
            ELSE IF FileKey[scalar.name] \in mapping_outputs
            THEN ScalarDictFrom(Tail(scalars), mapping_outputs,
                     DictSet(scalar_dict, scalar.name,
                             <<"mapping_imap", FileKey[scalar.name]>>))
            ELSE [err |-> Err("KeyError", FileKey[scalar.name]), scalar_dict |-> scalar_dict]

\* mapping_imap is the lazy map of the mapping plan built from the same kwargs
get_scalar_dict(w, sd, kw) ==
    LET r == ScalarDictFrom(kw.scalars,
                            PlanOutputs(get_mapping_plan(kw, kw.use_sls)), <<>>)
    IN IF r.err = NoErr THEN Done(w, get_scalar_dict_task, r.scalar_dict)
       ELSE Fail(w, get_scalar_dict_task, r.err)

\* ------------------------------------------------------------------------
\* Execution

ExecTask(w, sd, kw, t) ==
    CASE t.fn = "export_registered_b0" -> export_registered_b0(w, sd, kw)
      [] t.fn = "template_xform" -> template_xform(w, sd, kw)
      [] t.fn = "export_rois" -> export_rois(w, sd, kw)
      [] t.fn \in {"scalar_t1", "scalar_t2"} -> ScalarFile(w, sd, t)
      [] t.fn = "segment" -> segment(w, sd, kw)
      [] t.fn = "clean_bundles" -> clean_bundles(w, sd, kw)
      [] t.fn = "export_bundles" -> export_bundles(w, sd, kw)
      [] t.fn = "export_sl_counts" -> export_sl_counts(w, sd, kw)
      [] t.fn = "tract_profiles" -> tract_profiles(w, sd, kw)
      [] t.fn = "get_scalar_dict" -> get_scalar_dict(w, sd, kw)
      [] OTHER -> Done(w, t, <<>>)

\* the scheduled tasks run one after the other; a task that raises ends the run
RECURSIVE RunAll(_, _, _, _)
RunAll(w, sd, kw, sched) ==
    IF Len(sched) = 0 \/ w.err # NoErr THEN w
    ELSE RunAll(ExecTask(w, sd, kw, Head(sched)), sd, kw, Tail(sched))

\* ------------------------------------------------------------------------
\* Actions

\* the names a caller asks a plan for: its outputs and a name it does not have
RequestNames(p) == PlanOutputs(p) \cup {"no_such_output"}

\* a resolver that computes an output of the plan before it looks the name up
OutcomeComputeFirst(o) ==
    LET r == Resolve(plan, cyclic, mem, cfg.supplied, o)
        first == CHOOSE n \in PlanOutputs(plan) : TRUE
    IN IF r.err = NoErr
       THEN RunAll(World(disk, mem), subses_dict, kwargs, r.sched)
       ELSE IF r.err.kind = "unknown output"
       THEN [RunAll(World(disk, mem), subses_dict, kwargs, Schedule(plan, mem, first))
                EXCEPT !.err = r.err]
       ELSE [World(disk, mem) EXCEPT !.err = r.err]

\* what a request of o does to the files and the lazy map
Outcome(o) ==
    LET r == Resolve(plan, cyclic, mem, cfg.supplied, o)
    IN IF r.err = NoErr
       THEN RunAll(World(disk, mem), subses_dict, kwargs, r.sched)
       ELSE [World(disk, mem) EXCEPT !.err = r.err]

\* what a request of o does when the environment fails as f says
OutcomeWithFault(o, f) ==
    LET r == Resolve(plan, cyclic, mem, cfg.supplied, o)
    IN IF r.err = NoErr
       THEN RunAll([World(disk, mem) EXCEPT !.fault = f], subses_dict, kwargs, r.sched)
       ELSE [World(disk, mem) EXCEPT !.err = r.err]

\* what a request of o does when the computations take time t
OutcomeTimed(o, t) ==
    LET r == Resolve(plan, cyclic, mem, cfg.supplied, o)
    IN IF r.err = NoErr
       THEN RunAll([World(disk, mem) EXCEPT !.timing = t], subses_dict, kwargs, r.sched)
       ELSE [World(disk, mem) EXCEPT !.err = r.err]

\* the outputs whose value is the path, or the paths, of cached files
FileOutputs ==
    {"b0_warped_file", "template_xform_file", "rois_file", "bundles_file",
     "clean_bundles_file", "sl_counts_file", "profiles_file"}

\* the value an earlier request of o with the same identity and parameters
\* returned: in this session, or else in the session before
Earlier(o) ==
    IF o \in DOMAIN mem THEN Some(mem[o])
    ELSE IF o \in DOMAIN earlier THEN Some(earlier[o])
    ELSE None

Init ==
    /\ subses_dict \in Subjects
    /\ cfg \in InitialCfgs
    /\ kwargs = BuildKwargs(cfg)
    /\ plan = BuildPlan(cfg)
    /\ cyclic = HasCycle(plan)
    /\ mem = EmptyMap
    /\ disk = EmptyMap
    /\ nsess = 1
    /\ req = ""
    /\ ret = <<>>
    /\ err = NoErr
    /\ log = <<>>
    /\ comp = <<>>
    /\ wrote = {}
    /\ earlier = EmptyMap
    /\ before = None
    /\ made = EmptyMap

\* a new session for the same subject: the plan is rebuilt from a configuration
\* that differs from the last one in at most one parameter; the lazy map is new
\* and the files stay
NewSession ==
    /\ nsess < MaxSessions
    /\ nsess' = nsess + 1
    /\ cfg' \in Neighbours(cfg)
    /\ kwargs' = BuildKwargs(cfg')
    /\ plan' = BuildPlan(cfg')
    /\ cyclic' = HasCycle(plan')
    /\ mem' = EmptyMap
    /\ req' = ""
    /\ ret' = <<>>
    /\ err' = NoErr
    /\ log' = <<>>
    /\ comp' = <<>>
    /\ wrote' = {}
    /\ earlier' = IF cfg' = cfg
                  THEN [o \in DOMAIN mem \cap FileOutputs |-> mem[o]]
                  ELSE EmptyMap
    /\ before' = None
    /\ UNCHANGED <<made, subses_dict, disk>>

\* segmentation_params["presegment_bundle_dict"] given as a plain dictionary of
\* bundles
PresegDict == [py |-> "dict", bundles |-> <<"CST_L">>]

\* abd.BundleDict(d, seg_algo=..., resample_to=...)
BundleDict(d, seg_algo, resample_to) ==
    [py |-> "BundleDict", bundles |-> d.bundles, seg_algo |-> seg_algo,
     resample_to |-> resample_to]

\* what export_bundles leaves in the segmentation_params dictionary it received:
\* a presegment_bundle_dict that is neither None nor a BundleDict is replaced,
\* in the dictionary itself, by a BundleDict made of it
export_bundles_params(segmentation_params, reg_template) ==
    IF /\ "presegment_bundle_dict" \in DOMAIN segmentation_params
       /\ segmentation_params["presegment_bundle_dict"].py # "NoneType"
       /\ segmentation_params["presegment_bundle_dict"].py # "BundleDict"
    THEN [segmentation_params EXCEPT
             !["presegment_bundle_dict"] = BundleDict(@, "afq", reg_template)]
    ELSE segmentation_params

\* the keyword arguments of the plan after the tasks in ran have run: the plan
\* hands every task the same segmentation_params dictionary
ParamsAfter(kw, ran) ==
    IF \E i \in 1..Len(ran) : ran[i] = "export_bundles"
    THEN [kw EXCEPT !.segmentation_params =
             Some(export_bundles_params(Get(@), "reg_template"))]
    ELSE kw

\* imap[o]: the output is resolved, the tasks it needs run in order, and the value
\* is returned
Request(o) ==
    \E w \in {Outcome(o)} :
       /\ req' = o
       /\ err' = w.err
       /\ ret' = IF w.err = NoErr THEN w.mem[o] ELSE <<>>
       /\ log' = w.log
       /\ comp' = w.comp
       /\ wrote' = w.wrote
       /\ mem' = w.mem
       /\ disk' = w.disk
       /\ before' = Earlier(o)
       /\ kwargs' = ParamsAfter(kwargs, w.log)
       /\ UNCHANGED <<made, subses_dict, cfg, plan, cyclic, nsess, earlier>>

Next ==
    \/ NewSession
    \/ \E o \in RequestNames(plan) : Request(o)

Spec == Init /\ [][Next]_vars

\* ------------------------------------------------------------------------
\* Properties

\* the position of x in the sequence s
Pos(s, x) == CHOOSE i \in 1..Len(s) : s[i] = x

InSeq(s, x) == \E i \in 1..Len(s) : s[i] = x

FingerprintOf(tracking_params, segmentation_params) ==
    <<tracking_params.odf_model, tracking_params.directions, segmentation_params.seg_algo>>

\* the keyword arguments of the segmentation plan, over the tracking and
\* segmentation parameters that sessions use
SegKwargs ==
    { get_segmentation_plan_kwargs(
          [cfg EXCEPT !.tracking_params = tp, !.segmentation_params = sp]) :
      tp \in KnobValues.tracking_params, sp \in KnobValues.segmentation_params }

\* the names of the artifacts that segment, clean_bundles, export_sl_counts,
\* tract_profiles and export_bundles keep for an identity under kw
FingerprintedNames(sd, kw) ==
    { get_fname(sd, suffix, Some(kw.tracking_params), kw.segmentation_params) :
        suffix \in { <<"_tractography", ".", "trk">>, <<"-clean_tractography", ".", "trk">>,
                     <<"_sl_count", ".", "csv">>, <<"_profiles", ".", "csv">> } }
      \cup { BundleFname(sd, kw, folder, kw.bundle_dict[b]) :
               folder \in {"clean_bundles", "bundles"}, b \in 1..Len(kw.bundle_dict) }

\* C2: in the sessions of the segmentation plan, parameters that differ in a
\* fingerprinted parameter give every fingerprinted artifact a different file
\* name, and a file under a name of one fingerprint holds an artifact computed
\* with that fingerprint: no invocation reads or overwrites the artifact of
\* another.
C2_FingerprintsNeverCollide ==
    cfg.plan_kind = "segmentation" => \A kw1 \in SegKwargs :
        /\ \A kw2 \in SegKwargs :
              FingerprintOf(kw1.tracking_params, Get(kw1.segmentation_params))
                  # FingerprintOf(kw2.tracking_params, Get(kw2.segmentation_params))
              => FingerprintedNames(subses_dict, kw1)
                     \cap FingerprintedNames(subses_dict, kw2) = {}
        /\ \A path \in FingerprintedNames(subses_dict, kw1) \cap DOMAIN disk :
              FingerprintOf(Get(disk[path].deps.tracking_params),
                            Get(disk[path].deps.segmentation_params))
                  = FingerprintOf(kw1.tracking_params, Get(kw1.segmentation_params))

\* C2 witness: the files hold the per-bundle artifact and the cleaned bundles of
\* two invocations with different fingerprints, side by side.
C2_TwoFingerprintsOnDisk ==
    \E kw1 \in SegKwargs, kw2 \in SegKwargs :
        /\ FingerprintOf(kw1.tracking_params, Get(kw1.segmentation_params))
               # FingerprintOf(kw2.tracking_params, Get(kw2.segmentation_params))
        /\ \A kw \in {kw1, kw2} :
              /\ BundleFname(subses_dict, kw, "bundles", kw.bundle_dict[1]) \in DOMAIN disk
              /\ get_fname(subses_dict, <<"-clean_tractography", ".", "trk">>,
                           Some(kw.tracking_params), kw.segmentation_params) \in DOMAIN disk

\* C3: a request never returns an artifact cached under other values of the
\* parameters its value depends on: the cleaned bundles were cleaned with the
\* current clean_params, the profiles computed with the current profile_weights
\* and scalars, the warped b0 and the ROIs with the current mapping_definition
\* and bundle dictionary.
C3_StaleCacheNeverReturned ==
    err = NoErr =>
        /\ req = "clean_bundles_file" =>
              disk[ret[1]].deps.clean_params = Some(EffectiveClean(kwargs))
        /\ req = "profiles_file" =>
              /\ disk[ret[1]].deps.profile_weights = Some(kwargs.profile_weights)
              /\ disk[ret[1]].deps.scalars = Some(mem["scalar_dict"])
        /\ req = "b0_warped_file" =>
              disk[ret[1]].deps.mapping_definition = Some(EffectiveMapping(kwargs))
        /\ req = "rois_file" =>
              \A b \in 1..Len(ret) : \A i \in 1..Len(ret[b][2]) :
                  /\ disk[ret[b][2][i]].deps.mapping_definition
                        = Some(EffectiveMapping(kwargs))
                  /\ disk[ret[b][2][i]].deps.roi = Some(kwargs.bundle_dict[b].ROIs[i])

\* the outputs that names need: names and, again and again, the plan outputs
\* among the inputs of their producers
RECURSIVE NeededOutputs(_, _)
NeededOutputs(p, names) ==
    LET more == names \cup { n \in PlanOutputs(p) :
                                \E x \in names \cap PlanOutputs(p) :
                                    InSeq(Producer(p, x).inputs, n) }
    IN IF more = names THEN names ELSE NeededOutputs(p, more)

\* C4: a request of a name that is no output of the mapping or segmentation
\* plan ends in an unknown-output error for that name; no task has executed, no
\* computation was invoked and no file was written.
C4_UnknownOutputBeforeAnyTask ==
    (cfg.plan_kind \in {"mapping", "segmentation"} /\ req # ""
        /\ req \notin PlanOutputs(plan)) =>
        /\ err = Err("unknown output", req)
        /\ log = <<>>
        /\ comp = <<>>
        /\ wrote = {}

\* C4 witness: after outputs were computed, a name the plan does not have was
\* requested and refused.
C4_UnknownRequested ==
    /\ req = "no_such_output"
    /\ err.kind = "unknown output"
    /\ cfg.plan_kind \in {"mapping", "segmentation"}
    /\ DOMAIN mem # {}

\* two tasks of the plan each require an output of the other
MutuallyDependent(p) ==
    \E a \in DOMAIN p, b \in DOMAIN p :
        /\ a # b
        /\ InSeq(p[a].inputs, p[b].output)
        /\ InSeq(p[b].inputs, p[a].output)

\* C5: every request to a plan in which two tasks each require an output of the
\* other, also a request of an output outside the cycle, ends in a cyclic-plan
\* error; no task has executed and no file was written.
C5_CyclicPlanNoExecution ==
    (MutuallyDependent(plan) /\ req # "") =>
        /\ err.kind = "cyclic plan"
        /\ log = <<>>
        /\ comp = <<>>
        /\ wrote = {}
        /\ mem = EmptyMap
        /\ disk = EmptyMap

\* C5 witness: the output of the task outside the cycle was requested.
C5_OutsideCycleRequested ==
    /\ MutuallyDependent(plan)
    /\ req = "out_c"
    /\ err.kind = "cyclic plan"

\* C6: an unresolvable-dependency error names an input that a task needed for
\* the request requires without a default, that no task produces and that was
\* not supplied, and is raised before any task executes; it is raised for
\* tractography_imap when use_sls is set, and for data_imap, when these are not
\* supplied.
C6_UnresolvableDependencyNamed ==
    /\ err.kind = "unresolvable dependency" =>
          /\ log = <<>>
          /\ comp = <<>>
          /\ wrote = {}
          /\ err.name \notin cfg.supplied \cup PlanOutputs(plan)
          /\ \E n \in NeededOutputs(plan, {req}) :
                /\ InSeq(Producer(plan, n).inputs, err.name)
                /\ err.name \notin Producer(plan, n).defaults
    /\ (/\ cfg.plan_kind = "mapping"
        /\ cfg.use_sls
        /\ "tractography_imap" \notin cfg.supplied
        /\ req \in {"mapping", "rois_file", "b0_warped_file", "template_xform_file"})
          => err = Err("unresolvable dependency", "tractography_imap")
    /\ (/\ cfg.plan_kind = "mapping"
        /\ "data_imap" \notin cfg.supplied
        /\ req \in {"reg_subject", "mapping", "rois_file", "b0_warped_file",
                     "template_xform_file"})
          => err = Err("unresolvable dependency", "data_imap")

\* C6 witness: with use_sls and no tractography_imap, the ROIs were requested.
C6_TractographyMissing ==
    /\ cfg.use_sls
    /\ req = "rois_file"
    /\ err = Err("unresolvable dependency", "tractography_imap")

\* the task of plan p whose function is fn
TaskByFn(p, fn) == p[CHOOSE k \in DOMAIN p : p[k].fn = fn]

\* if a ran in the last request, b ran in it too, and later
RanBefore(a, b) == InSeq(log, a) => (InSeq(log, b) /\ Pos(log, a) < Pos(log, b))

\* C7: the tasks of a request run one after the other, each at most once, and
\* each only when every plan output among its inputs is computed, its producer
\* having run earlier if it ran in this request; for rois_file get_reg_subject
\* runs before the mapping task and that before export_rois, for
\* clean_bundles_file segment runs before clean_bundles.
C7_DependencyOrder ==
    /\ \A i \in 1..Len(log), j \in 1..Len(log) : i # j => log[i] # log[j]
    /\ \A i \in 1..Len(log) :
          LET t == TaskByFn(plan, log[i])
          IN \A k \in 1..Len(t.inputs) :
                 t.inputs[k] \in PlanOutputs(plan) =>
                     /\ t.inputs[k] \in DOMAIN mem
                     /\ InSeq(log, Producer(plan, t.inputs[k]).fn)
                           => Pos(log, Producer(plan, t.inputs[k]).fn) < i
    /\ (req = "rois_file" /\ err = NoErr) =>
          /\ {"reg_subject", "mapping", "rois_file"} \subseteq DOMAIN mem
          /\ RanBefore("get_reg_subject", Producer(plan, "mapping").fn)
          /\ RanBefore(Producer(plan, "mapping").fn, "export_rois")
    /\ (req = "clean_bundles_file" /\ err = NoErr) =>
          /\ {"bundles_file", "clean_bundles_file"} \subseteq DOMAIN mem
          /\ RanBefore("segment", "clean_bundles")

\* C7 witness: the ROIs, and the cleaned bundles, were requested of a new lazy map.
C7_ChainExecuted ==
    \/ req = "rois_file" /\ log = <<"get_reg_subject", "mapping", "export_rois">>
    \/ req = "clean_bundles_file" /\ log = <<"segment", "clean_bundles">>

\* C8: a request runs only tasks whose output the requested output needs and
\* writes only files of those tasks; a request of rois_file runs neither
\* export_registered_b0 nor template_xform, a request of bundles_file none of
\* clean_bundles, export_bundles, export_sl_counts and tract_profiles.
C8_OnlyNeededTasksRun ==
    /\ \A i \in 1..Len(log) :
          TaskByFn(plan, log[i]).output \in NeededOutputs(plan, {req})
    /\ \A path \in wrote :
          /\ InSeq(log, disk[path].by)
          /\ TaskByFn(plan, disk[path].by).output \in NeededOutputs(plan, {req})
    /\ req = "rois_file" =>
          /\ \A fn \in {"export_registered_b0", "template_xform"} : ~InSeq(log, fn)
          /\ \A path \in wrote : disk[path].by = "export_rois"
    /\ req = "bundles_file" =>
          /\ \A fn \in {"clean_bundles", "export_bundles", "export_sl_counts",
                         "tract_profiles"} : ~InSeq(log, fn)
          /\ \A path \in wrote : disk[path].by = "segment"

\* C8 witness: the ROIs, or the bundles, were requested and their files written.
C8_OnlyRequestedWritten ==
    /\ req \in {"rois_file", "bundles_file"}
    /\ wrote # {}
    /\ DOMAIN mem \cap FileOutputs = {req}

\* C9: the mapping plans built from the same kwargs with and without use_sls
\* have the same output names and the same tasks, but for the task registered
\* for "mapping": sls_mapping with use_sls, mapping without.
C9_UseSlsSwapsOnlyMapping ==
    cfg.plan_kind = "mapping" =>
        LET with_sls == get_mapping_plan(kwargs, TRUE)
            without_sls == get_mapping_plan(kwargs, FALSE)
        IN /\ plan = IF cfg.use_sls THEN with_sls ELSE without_sls
           /\ PlanOutputs(with_sls) = PlanOutputs(without_sls)
           /\ DOMAIN with_sls = DOMAIN without_sls
           /\ \A k \in DOMAIN with_sls :
                 with_sls[k] # without_sls[k] <=> k = "mapping_res"
           /\ with_sls["mapping_res"] = sls_mapping_task
           /\ without_sls["mapping_res"] = mapping_task
           /\ sls_mapping_task.output = "mapping" /\ mapping_task.output = "mapping"
           /\ \A n \in {"rois_file", "b0_warped_file", "template_xform_file", "reg_subject"} :
                 /\ n \in PlanOutputs(with_sls)
                 /\ Producer(with_sls, n) = Producer(without_sls, n)

\* C9 witness: a session with use_sls computed the ROIs through sls_mapping.
C9_SlsSessionRan ==
    /\ cfg.plan_kind = "mapping"
    /\ cfg.use_sls
    /\ req = "rois_file"
    /\ log = <<"get_reg_subject", "sls_mapping", "export_rois">>

\* C10: the mapping plan has, for every custom scalar of kwargs["scalars"], an
\* output "<name>_file" produced by that scalar's own task.
C10_EveryCustomScalarHasOutput ==
    cfg.plan_kind = "mapping" =>
        \A i \in 1..Len(kwargs.scalars) :
            kwargs.scalars[i].kind = "def" =>
                /\ FileKey[kwargs.scalars[i].name] \in PlanOutputs(plan)
                /\ Producer(plan, FileKey[kwargs.scalars[i].name]).fn
                      = ScalarTaskName[kwargs.scalars[i].name]

\* ------------------------------------------------------------------------
\* The task functions called on their own, with arguments of any type

\* Python values by their type
PyNone == [type |-> "NoneType"]
PyStr(v) == [type |-> "str", val |-> v]
PyDefinition(n) == [type |-> "Definition", name |-> n]
PyImage == [type |-> "Nifti1Image"]
PyInt == [type |-> "int"]
PyList == [type |-> "list"]
PyArray == [type |-> "ndarray"]
PyCallable == [type |-> "function"]
PyDict(d) == [type |-> "dict", items |-> d]

\* mapping with find_path called before the type of mapping_definition is checked
mapping_check_late(w, bids_info, mapping_definition) ==
    LET definition == IF mapping_definition = PyNone THEN PyDefinition("SynMap")
                      ELSE mapping_definition
        w1 == IF bids_info # PyNone THEN Invoke(w, "mapping", <<"find_path">>) ELSE w
    IN IF definition.type # "Definition"
       THEN Fail(w1, mapping_task,
                 Err("TypeError", <<"mapping must be a mapping defined",
                                    " in AFQ.definitions.mapping">>))
       ELSE Done(Invoke(w1, "mapping", <<"get_for_subses", definition.name>>),
                 mapping_task, <<definition.name>>)

\* the body of mapping
mapping(w, bids_info, mapping_definition) ==
    LET definition == IF mapping_definition = PyNone THEN PyDefinition("SynMap")
                      ELSE mapping_definition
        w1 == IF bids_info # PyNone THEN Invoke(w, "mapping", <<"find_path">>) ELSE w
    IN IF definition.type # "Definition"
       THEN Fail(w, mapping_task,
                 Err("TypeError", <<"mapping must be a mapping defined",
                                    " in AFQ.definitions.mapping">>))
       ELSE Done(Invoke(w1, "mapping", <<"get_for_subses", definition.name>>),
                 mapping_task, <<definition.name>>)

\* the body of sls_mapping; atlas_exists: the HCP atlas is already downloaded
sls_mapping(w, bids_info, mapping_definition, atlas_exists) ==
    LET definition == IF mapping_definition = PyNone THEN PyDefinition("SynMap")
                      ELSE mapping_definition
        w1 == IF bids_info # PyNone THEN Invoke(w, "sls_mapping", <<"find_path">>) ELSE w
        w2 == Invoke(w1, "sls_mapping", <<"load_tractogram", "streamlines_file">>)
        w3 == IF ~atlas_exists
              THEN Invoke(w2, "sls_mapping", <<"fetch_hcp_atlas_16_bundles">>) ELSE w2
        w4 == Invoke(w3, "sls_mapping", <<"load_tractogram", "atlas_fname">>)
    IN IF definition.type # "Definition"
       THEN Fail(w, sls_mapping_task,
                 Err("TypeError", <<"mapping must be a mapping defined",
                                    " in AFQ.definitions.mapping">>))
       ELSE Done(Invoke(w4, "sls_mapping", <<"get_for_subses", definition.name>>),
                 sls_mapping_task, <<definition.name>>)

\* the checks of profile_weights at the head of tract_profiles: the error, and
\* the weights as the function goes on to use them
profile_weights_checked(profile_weights) ==
    LET lowered == IF profile_weights.type = "str"
                   THEN PyStr(Lower[profile_weights.val]) ELSE profile_weights
    IN IF profile_weights.type \notin {"NoneType", "str", "function", "ndarray", "list"}
       THEN [err |-> Err("TypeError", <<"profile_weights must be string, None, callable, or",
                                        "a 1D or 2D array">>),
             weights |-> profile_weights]
       ELSE IF lowered.type = "str" /\ lowered.val # "gauss" /\ lowered.val # "median"
       THEN [err |-> Err("TypeError", <<"if profile_weights is a string,",
                                        " it must be ", "gauss", " or ", "median">>),
             weights |-> lowered]
       ELSE [err |-> NoErr, weights |-> lowered]

\* the body of tract_profiles: the checks, then the files are loaded
tract_profiles_body(w, profile_weights) ==
    LET checked == profile_weights_checked(profile_weights)
    IN IF checked.err # NoErr THEN Fail(w, tract_profiles_task, checked.err)
       ELSE Done(Invoke(Invoke(Invoke(w,
                     "tract_profiles", <<"nib.streamlines.load", "clean_bundles_file">>),
                     "tract_profiles", <<"nib.load", "scalar_file">>),
                     "tract_profiles", <<"afq_profile", checked.weights>>),
                 tract_profiles_task, <<"profile_dframe">>)

\* filename_dict of get_reg_subject
filename_dict ==
    [ b0 |-> "b0_file", power_map |-> "pmap_file", dti_fa_subject |-> "dti_fa_file",
      subject_sls |-> "b0_file" ]

\* nib.load(x): an image for the name of a file that exists
nib_load(w, fn, x, files) ==
    IF x.type # "str"
    THEN [w |-> [Invoke(w, fn, <<"nib.load", x.type>>)
                    EXCEPT !.err = Err("TypeError", <<"nib.load", x.type>>)],
          img |-> <<>>]
    ELSE IF x.val \notin files
    THEN [w |-> [Invoke(w, fn, <<"nib.load", x.val>>)
                    EXCEPT !.err = Err("FileNotFoundError", <<x.val>>)],
          img |-> <<>>]
    ELSE [w |-> Invoke(w, fn, <<"nib.load", x.val>>), img |-> <<x.val>>]

\* the body of get_reg_subject; files: the names of the image files that exist
get_reg_subject(w, bids_info, reg_subject_spec, files) ==
    IF reg_subject_spec.type \notin {"str", "Nifti1Image", "Definition"}
    THEN Fail(w, get_reg_subject_task,
              Err("TypeError", <<"reg_subject must be a str, Definition, or Nifti1Image">>))
    ELSE LET bm == nib_load(w, "get_reg_subject", PyStr("brain_mask_file"), files)
             resolved ==
                 IF bids_info # PyNone /\ reg_subject_spec.type = "Definition"
                 THEN [w |-> Invoke(Invoke(bm.w, "get_reg_subject", <<"find_path">>),
                                    "get_reg_subject", <<"get_data", reg_subject_spec.name>>),
                       spec |-> PyStr(reg_subject_spec.name)]
                 ELSE IF reg_subject_spec.type = "str"
                         /\ reg_subject_spec.val \in DOMAIN filename_dict
                 THEN [w |-> bm.w, spec |-> PyStr(filename_dict[reg_subject_spec.val])]
                 ELSE [w |-> bm.w, spec |-> reg_subject_spec]
             loaded == nib_load(resolved.w, "get_reg_subject", resolved.spec, files)
         IN IF loaded.w.err # NoErr
            THEN [loaded.w EXCEPT !.log = Append(@, "get_reg_subject")]
            ELSE Done(loaded.w, get_reg_subject_task, <<"masked">> \o loaded.img)

\* get_segmentation_plan on the kwargs of the caller, a dict of Python values:
\* the error, the plan, and kwargs as the call leaves it
get_segmentation_plan_call(kw) ==
    IF "segmentation_params" \in DOMAIN kw /\ kw["segmentation_params"].type # "dict"
    THEN [err |-> Err("TypeError", <<"segmentation_params a dict">>),
          plan |-> EmptyMap, kwargs |-> kw]
    ELSE LET given == [segmentation_params |->
                          IF "segmentation_params" \in DOMAIN kw
                          THEN Some(kw["segmentation_params"].items) ELSE None]
         IN [err |-> NoErr,
             plan |-> get_segmentation_plan(given),
             kwargs |-> Put(kw, "segmentation_params",
                            PyDict(Get(get_segmentation_plan_kwargs(given).segmentation_params)))]

\* the image files that exist when get_reg_subject is called
ImageFiles ==
    {"brain_mask_file", "b0_file", "pmap_file", "dti_fa_file", "custom_b0", "ScalarFile"}

BidsInfos == {PyNone, PyDict([suffix |-> "dwi"])}

MappingDefinitions ==
    {PyNone, PyDefinition("SynMap"), PyDefinition("AffMap"), PyStr("syn"), PyInt, PyImage}

ProfileWeights ==
    {PyNone, PyCallable, PyArray, PyList, PyInt, PyDict(EmptyMap)}
      \cup {PyStr(v) : v \in {"gauss", "Gauss", "median", "MEDIAN", "mean", "Mean"}}

RegSubjectSpecs ==
    {PyDefinition("ScalarFile"), PyImage, PyInt, PyList, PyNone}
      \cup {PyStr(v) : v \in DOMAIN filename_dict \cup {"custom_b0", "t1w"}}

SegmentationKwargs ==
    {[profile_weights |-> PyStr("gauss")]}
      \cup {[profile_weights |-> PyStr("gauss"), segmentation_params |-> v] :
               v \in {PyDict([seg_algo |-> "reco"]), PyDict([return_idx |-> TRUE]),
                      PyStr("reco"), PyList, PyNone}}

MaxScalars == 3

\* the scalars a caller may list: strings in either case and scalar Definitions
ScalarChoices ==
    { StrScalar("dti_fa"), StrScalar("dti_FA"), StrScalar("dti_md"),
      DefScalar("t1"), DefScalar("t2") }

\* the calls: the function and its arguments
Calls ==
    {[fn |-> "mapping", bids_info |-> b, mapping_definition |-> d] :
        b \in BidsInfos, d \in MappingDefinitions}
    \cup {[fn |-> "sls_mapping", bids_info |-> b, mapping_definition |-> d,
           atlas_exists |-> a] :
        b \in BidsInfos, d \in MappingDefinitions, a \in BOOLEAN}
    \cup {[fn |-> "tract_profiles", profile_weights |-> pw] : pw \in ProfileWeights}
    \cup {[fn |-> "get_reg_subject", bids_info |-> b, reg_subject_spec |-> r] :
        b \in BidsInfos, r \in RegSubjectSpecs}
    \cup {[fn |-> "get_segmentation_plan", kwargs |-> kw] : kw \in SegmentationKwargs}
    \cup {[fn |-> "get_scalar_dict", scalars |-> sc, mapping_imap |-> mo] :
        sc \in SeqsUpTo(ScalarChoices, MaxScalars),
        mo \in { {}, {"t1_file"}, {"t1_file", "t2_file"} }}

InitCalls ==
    /\ subses_dict \in Subjects
    /\ cfg \in Calls
    /\ kwargs = IF cfg.fn = "get_segmentation_plan" THEN cfg.kwargs ELSE EmptyMap
    /\ plan = EmptyMap
    /\ cyclic = FALSE
    /\ mem = EmptyMap
    /\ disk = EmptyMap
    /\ nsess = 1
    /\ req = ""
    /\ ret = <<>>
    /\ err = NoErr
    /\ log = <<>>
    /\ comp = <<>>
    /\ wrote = {}
    /\ earlier = EmptyMap
    /\ before = None
    /\ made = EmptyMap

\* the function has returned or raised: what the caller sees of world w
Returned(fn, w, output) ==
    /\ req' = fn
    /\ err' = w.err
    /\ ret' = IF w.err = NoErr THEN w.mem[output] ELSE <<>>
    /\ log' = w.log
    /\ comp' = w.comp
    /\ UNCHANGED <<made, subses_dict, cfg, kwargs, plan, cyclic, mem, disk, nsess, wrote,
                   earlier, before>>

CallMapping ==
    /\ req = "" /\ cfg.fn = "mapping"
    /\ Returned("mapping",
                mapping(World(disk, mem), cfg.bids_info, cfg.mapping_definition),
                "mapping")

CallSlsMapping ==
    /\ req = "" /\ cfg.fn = "sls_mapping"
    /\ Returned("sls_mapping",
                sls_mapping(World(disk, mem), cfg.bids_info, cfg.mapping_definition,
                            cfg.atlas_exists),
                "mapping")

CallTractProfiles ==
    /\ req = "" /\ cfg.fn = "tract_profiles"
    /\ Returned("tract_profiles",
                tract_profiles_body(World(disk, mem), cfg.profile_weights),
                "profiles_file")

CallGetRegSubject ==
    /\ req = "" /\ cfg.fn = "get_reg_subject"
    /\ Returned("get_reg_subject",
                get_reg_subject(World(disk, mem), cfg.bids_info, cfg.reg_subject_spec,
                                ImageFiles),
                "reg_subject")

CallGetSegmentationPlan ==
    /\ req = "" /\ cfg.fn = "get_segmentation_plan"
    /\ LET r == get_segmentation_plan_call(kwargs)
       IN /\ req' = "get_segmentation_plan"
          /\ err' = r.err
          /\ plan' = r.plan
          /\ kwargs' = r.kwargs
          /\ UNCHANGED <<made, subses_dict, cfg, cyclic, mem, disk, nsess, ret, log, comp,
                         wrote, earlier, before>>

\* get_scalar_dict with the outputs mapping_imap holds
CallGetScalarDict ==
    /\ req = "" /\ cfg.fn = "get_scalar_dict"
    /\ LET r == ScalarDictFrom(cfg.scalars, cfg.mapping_imap, <<>>)
       IN /\ req' = "get_scalar_dict"
          /\ err' = r.err
          /\ ret' = IF r.err = NoErr THEN r.scalar_dict ELSE <<>>
          /\ log' = <<"get_scalar_dict">>
          /\ UNCHANGED <<made, subses_dict, cfg, kwargs, plan, cyclic, mem, disk, nsess,
                         comp, wrote, earlier, before>>

NextCalls ==
    \/ CallGetScalarDict
    \/ CallMapping
    \/ CallSlsMapping
    \/ CallTractProfiles
    \/ CallGetRegSubject
    \/ CallGetSegmentationPlan

SpecCalls == InitCalls /\ [][NextCalls]_vars

\* C11: a profile_weights string other than gauss and median makes tract_profiles
\* raise a TypeError whose message contains the rejected value and the recognized
\* set, and a reg_subject_spec string outside b0, power_map, dti_fa_subject and
\* subject_sls makes get_reg_subject raise such an error too.
C11_InvalidSelectorRejectedByName ==
    /\ (req = "tract_profiles" /\ cfg.profile_weights.type = "str"
          /\ Lower[cfg.profile_weights.val] \notin {"gauss", "median"})
       => /\ err.kind = "TypeError"
          /\ InSeq(err.name, "gauss") /\ InSeq(err.name, "median")
          /\ \/ InSeq(err.name, cfg.profile_weights.val)
             \/ InSeq(err.name, Lower[cfg.profile_weights.val])
    /\ (req = "get_reg_subject" /\ cfg.reg_subject_spec.type = "str"
          /\ cfg.reg_subject_spec.val \notin DOMAIN filename_dict)
       => /\ err.kind = "TypeError"
          /\ InSeq(err.name, cfg.reg_subject_spec.val)
          /\ \A v \in DOMAIN filename_dict : InSeq(err.name, v)

\* the mapping definition that mapping and sls_mapping check
CheckedDefinition ==
    IF cfg.mapping_definition = PyNone THEN PyDefinition("SynMap") ELSE cfg.mapping_definition

C20_RegSubjectSpecKindsAccepted ==
    req = "get_reg_subject" =>
        IF cfg.reg_subject_spec.type \in {"Definition", "Nifti1Image"}
           \/ /\ cfg.reg_subject_spec.type = "str"
              /\ cfg.reg_subject_spec.val \in DOMAIN filename_dict \cup ImageFiles
        THEN err = NoErr /\ Len(ret) = 2 /\ ret[1] = "masked"
        ELSE cfg.reg_subject_spec.type # "str"
                => err.kind = "TypeError" /\ comp = <<>>

\* ------------------------------------------------------------------------
\* export_rois under failures of the environment, and the retries after them

MaxAttempts == 3

\* the failures that may strike export_rois for bundle_dict, at one of its steps
\* that call out and may raise
Faults(bundle_dict) ==
    UNION { { Fault(bundle_dict[b].name, ii, step, partial) :
                ii \in 0..(Len(bundle_dict[b].ROIs) - 1),
                step \in {"transform_inverse_roi", "nib.save", "write_json"}, partial \in BOOLEAN } :
            b \in 1..Len(bundle_dict) }

InitFail ==
    /\ subses_dict \in Subjects
    /\ cfg \in { [DefaultCfg EXCEPT !.bundle_dict = bd] : bd \in {BundleDictA, BundleDictB} }
    /\ kwargs = BuildKwargs(cfg)
    /\ plan = BuildPlan(cfg)
    /\ cyclic = HasCycle(plan)
    /\ mem = EmptyMap
    /\ disk = EmptyMap
    /\ nsess = 1
    /\ req = ""
    /\ ret = <<>>
    /\ err = NoErr
    /\ log = <<>>
    /\ comp = <<>>
    /\ wrote = {}
    /\ earlier = EmptyMap
    /\ before = None
    /\ made = EmptyMap

\* the process ends and the same subject is run again with the same parameters
Restart ==
    /\ nsess < MaxAttempts
    /\ nsess' = nsess + 1
    /\ mem' = EmptyMap
    /\ req' = ""
    /\ ret' = <<>>
    /\ err' = NoErr
    /\ log' = <<>>
    /\ comp' = <<>>
    /\ wrote' = {}
    /\ earlier' = [o \in DOMAIN mem \cap FileOutputs |-> mem[o]]
    /\ before' = None
    /\ kwargs' = BuildKwargs(cfg)
    /\ UNCHANGED <<made, subses_dict, cfg, plan, cyclic, disk>>

\* imap["rois_file"] while the environment fails as f says
RequestFailing(f) ==
    \E w \in {OutcomeWithFault("rois_file", f)} :
       /\ req' = "rois_file"
       /\ err' = w.err
       /\ ret' = IF w.err = NoErr THEN w.mem["rois_file"] ELSE <<>>
       /\ log' = w.log
       /\ comp' = w.comp
       /\ wrote' = w.wrote
       /\ mem' = w.mem
       /\ disk' = w.disk
       /\ before' = Earlier("rois_file")
       /\ UNCHANGED <<made, subses_dict, cfg, kwargs, plan, cyclic, nsess, earlier>>

NextFail ==
    \/ Restart
    \/ Request("rois_file")
    \/ \E f \in Faults(cfg.bundle_dict) : RequestFailing(f)

SpecFail == InitFail /\ [][NextFail]_vars

\* the files export_rois writes for the session's bundles when nothing fails
RoiFilesOf(sd, kw) ==
    UNION { UNION { { RoiFname(sd, kw.bundle_dict[b], ii),
                      SplitDot0(RoiFname(sd, kw.bundle_dict[b], ii)) \o <<".", "json">> } :
                    ii \in 0..(Len(kw.bundle_dict[b].ROIs) - 1) } :
            b \in 1..Len(kw.bundle_dict) }

\* C13: whatever step of export_rois has failed, every ROI file on disk is
\* completely written and has its JSON sidecar, completely written too.
C13_NoPartialRoiFileAfterFailure ==
    \A b \in 1..Len(kwargs.bundle_dict) :
       \A ii \in 0..(Len(kwargs.bundle_dict[b].ROIs) - 1) :
          LET fname == RoiFname(subses_dict, kwargs.bundle_dict[b], ii)
              meta_fname == SplitDot0(fname) \o <<".", "json">>
          IN fname \in DOMAIN disk
                => /\ disk[fname].kind = "data"
                   /\ meta_fname \in DOMAIN disk
                   /\ disk[meta_fname].kind = "meta"

\* C14: a request of rois_file that succeeds, be it a retry after a failure, ends
\* with the files of export_rois that a run that never failed ends with.
C14_RetryEndsLikeUnfailedRun ==
    (req = "rois_file" /\ err = NoErr)
       => { p \in DOMAIN disk : disk[p].by = "export_rois" }
             = RoiFilesOf(subses_dict, kwargs)

\* C16: no request writes to the path of a file that exists and was computed from
\* the same inputs: a cached artifact and its sidecar are written once.
C16_CachedArtifactNeverRewritten ==
    [][\A p \in wrote' : p \in DOMAIN disk => disk'[p].deps # disk[p].deps]_vars

\* C18: a sidecar records the parameters the artifact was computed with: that of
\* clean_bundles_file the clean parameters passed on (the defaults overridden by
\* clean_params), that of bundles_file the segmentation parameters, that of
\* profiles_file the profile weighting.
C18_SidecarRecordsParametersUsed ==
    \A p \in DOMAIN disk :
       disk[p].kind = "meta" =>
          /\ disk[p].by = "clean_bundles"
                => Some(disk[p].meta.Parameters) = disk[p].deps.clean_params
          /\ disk[p].by = "segment"
                => Some(disk[p].meta.Parameters) = disk[p].deps.segmentation_params
          /\ disk[p].by = "tract_profiles"
                => disk[p].meta.parameters.weights = disk[p].deps.profile_weights

\* ------------------------------------------------------------------------
\* Two subjects whose resolutions share the file system

MaxTurns == 3

\* subject/session pairs with their own results_dir, under a directory with or
\* without a '.' in its name
SubjectPairs ==
    { [dwi_file    |-> <<"/", "bids", "/", sub \o "_dwi", ".", "nii", ".", "gz">>,
       results_dir |-> root \o <<"/", sub>>] :
      sub \in {"sub-01", "sub-02"},
      root \in { <<"/", "afq">>, <<"/", "afq", ".", "v1">> } }

\* the configurations of the two plans, with the indices of the streamlines
\* kept or not
PairCfgs ==
    { DefaultCfg,
      [DefaultCfg EXCEPT !.plan_kind = "segmentation"],
      [DefaultCfg EXCEPT !.plan_kind = "segmentation",
                         !.segmentation_params = Some([return_idx |-> TRUE]),
                         !.clean_params = Some([return_idx |-> TRUE])],
      [DefaultCfg EXCEPT !.plan_kind = "segmentation",
                         !.clean_params = Some([return_idx |-> TRUE])] }

InitTwo ==
    /\ subses_dict \in SubjectPairs
    /\ cfg \in PairCfgs
    /\ kwargs = BuildKwargs(cfg)
    /\ plan = BuildPlan(cfg)
    /\ cyclic = HasCycle(plan)
    /\ mem = EmptyMap
    /\ disk = EmptyMap
    /\ nsess = 1
    /\ req = ""
    /\ ret = <<>>
    /\ err = NoErr
    /\ log = <<>>
    /\ comp = <<>>
    /\ wrote = {}
    /\ earlier = EmptyMap
    /\ before = None
    /\ made = EmptyMap

\* the resolution of another subject takes its turn, with a lazy map of its own
\* and the same parameters
OtherSubject ==
    /\ nsess < MaxTurns
    /\ nsess' = nsess + 1
    /\ subses_dict' \in { sd \in SubjectPairs : sd.results_dir # subses_dict.results_dir }
    /\ mem' = EmptyMap
    /\ req' = ""
    /\ ret' = <<>>
    /\ err' = NoErr
    /\ log' = <<>>
    /\ comp' = <<>>
    /\ wrote' = {}
    /\ earlier' = EmptyMap
    /\ before' = None
    /\ kwargs' = BuildKwargs(cfg)
    /\ UNCHANGED <<made, cfg, plan, cyclic, disk>>

NextTwo ==
    \/ OtherSubject
    \/ \E o \in PlanOutputs(plan) \cap {"rois_file", "clean_bundles_file", "indiv_bundles"} :
          Request(o)

SpecTwo == InitTwo /\ [][NextTwo]_vars

\* path lies in directory dir or below it
Under(path, dir) ==
    /\ Len(path) > Len(dir) + 1
    /\ SubSeq(path, 1, Len(dir)) = dir
    /\ path[Len(dir) + 1] = "/"

\* op.split(p)[0]: the text before the last '/'
Dirname(p) ==
    LET k == CHOOSE i \in 1..Len(p) : p[i] = "/" /\ \A j \in (i + 1)..Len(p) : p[j] # "/"
    IN SubSeq(p, 1, k - 1)

\* C15: every file a resolution writes through export_rois and export_bundles,
\* artifact or sidecar, lies under the results_dir of its own subject, so that
\* two subjects with distinct results_dir never write the same path.
C15_WritesUnderOwnResultsDir ==
    \A p \in wrote :
       disk[p].by \in {"export_rois", "export_bundles"} => Under(p, subses_dict.results_dir)

\* C19: every file of export_rois and export_bundles has its sidecar in its own
\* directory, under its own name with the extension replaced by .json, whatever
\* the results_dir; and clean_bundles finds the indices in the sidecar of
\* bundles_file.
C19_SidecarBesideArtifact ==
    /\ \A p \in DOMAIN disk :
          (disk[p].by \in {"export_rois", "export_bundles"} /\ disk[p].kind = "data")
             => LET sidecar == Join(Dirname(p), SplitDot0(Basename(p)) \o <<".", "json">>)
                IN sidecar \in DOMAIN disk /\ disk[sidecar].kind = "meta"
    /\ (req = "clean_bundles_file" /\ EffectiveClean(kwargs).return_idx)
          => err.kind # "FileNotFoundError"

\* ------------------------------------------------------------------------
\* Cached files deleted between runs with the same subject and parameters

\* what time() - start_time may come to
Timings == {1, 2}

\* what is removed between two runs: the profiles file, the ROIs folder, the
\* bundles folder, or all of results_dir
Removals == {"profiles_file", "ROIs", "bundles", "results_dir"}

\* the paths that removing target takes away
Removed(sd, kw, d, target) ==
    IF target = "profiles_file"
    THEN { get_fname(sd, <<"_profiles", ".", "csv">>,
                     Some(kw.tracking_params), kw.segmentation_params) } \cap DOMAIN d
    ELSE IF target = "results_dir"
    THEN { p \in DOMAIN d : Under(p, sd.results_dir) }
    ELSE { p \in DOMAIN d : Under(p, Join(sd.results_dir, <<target>>)) }

InitRegen ==
    /\ subses_dict \in Subjects
    /\ cfg \in { [DefaultCfg EXCEPT !.plan_kind = k] : k \in {"mapping", "segmentation"} }
    /\ kwargs = BuildKwargs(cfg)
    /\ plan = BuildPlan(cfg)
    /\ cyclic = HasCycle(plan)
    /\ mem = EmptyMap
    /\ disk = EmptyMap
    /\ nsess = 1
    /\ req = ""
    /\ ret = <<>>
    /\ err = NoErr
    /\ log = <<>>
    /\ comp = <<>>
    /\ wrote = {}
    /\ earlier = EmptyMap
    /\ before = None
    /\ made = EmptyMap

\* the process has ended; files are removed and the same subject is run again
\* with the same parameters
RemoveAndRestart(target) ==
    /\ nsess < MaxAttempts
    /\ Removed(subses_dict, kwargs, disk, target) # {}
    /\ nsess' = nsess + 1
    /\ disk' = [p \in DOMAIN disk \ Removed(subses_dict, kwargs, disk, target) |-> disk[p]]
    /\ mem' = EmptyMap
    /\ req' = ""
    /\ ret' = <<>>
    /\ err' = NoErr
    /\ log' = <<>>
    /\ comp' = <<>>
    /\ wrote' = {}
    /\ earlier' = EmptyMap
    /\ before' = None
    /\ kwargs' = BuildKwargs(cfg)
    /\ UNCHANGED <<made, subses_dict, cfg, plan, cyclic>>

\* imap[o] when the computations take time t; made keeps the first content of
\* every path and counts its writes up to two
RequestTimed(o, t) ==
    \E w \in {OutcomeTimed(o, t)} :
       /\ req' = o
       /\ err' = w.err
       /\ ret' = IF w.err = NoErr THEN w.mem[o] ELSE <<>>
       /\ log' = w.log
       /\ comp' = w.comp
       /\ wrote' = w.wrote
       /\ mem' = w.mem
       /\ disk' = w.disk
       /\ before' = Earlier(o)
       /\ made' = [p \in DOMAIN made \cup w.wrote |->
                      IF p \notin DOMAIN made THEN [first |-> w.disk[p], writes |-> 1]
                      ELSE IF p \in w.wrote THEN [made[p] EXCEPT !.writes = 2]
                      ELSE made[p]]
       /\ kwargs' = ParamsAfter(kwargs, w.log)
       /\ UNCHANGED <<subses_dict, cfg, plan, cyclic, nsess, earlier>>

NextRegen ==
    \/ \E target \in Removals : RemoveAndRestart(target)
    \/ \E o \in PlanOutputs(plan) \cap {"rois_file", "indiv_bundles", "profiles_file"} :
          \E t \in Timings : RequestTimed(o, t)

SpecRegen == InitRegen /\ [][NextRegen]_vars

\* a file's content without the time its computation took
WithoutTiming(content) ==
    IF content.kind = "meta" /\ "Timing" \in DOMAIN content.meta
    THEN [content EXCEPT !.meta = [k \in DOMAIN @ \ {"Timing"} |-> @[k]]]
    ELSE content

\* C17 as stated: with the subject and the parameters the same, every file on
\* disk, artifact or sidecar, is what was first written at its path, also when
\* it was removed and made again.
C17_IdenticalArtifacts ==
    \A p \in DOMAIN disk : disk[p] = made[p].first

\* C17: with the subject and the parameters the same, every file on disk is what
\* was first written at its path, but for the Timing entry of a sidecar, also
\* when it was removed and made again.
C17_IdenticalButForTiming ==
    \A p \in DOMAIN disk : WithoutTiming(disk[p]) = WithoutTiming(made[p].first)

\* C17 witness: the profiles file was removed and has been made again
C17_ProfilesRegenerated ==
    \E p \in wrote :
       /\ disk[p].by = "tract_profiles" /\ disk[p].kind = "data"
       /\ made[p].writes = 2

\* ------------------------------------------------------------------------
\* The tables of tract_profiles and export_sl_counts

\* the number of nodes of a profile: afq_profile's n_points, and the width of
\* this_profile
NPoints == 100

MaxStreamlines == 2

\* np.unique(a): the distinct values of a in increasing order
RECURSIVE SortedSeq(_)
SortedSeq(s) ==
    IF s = {} THEN <<>>
    ELSE LET m == CHOOSE x \in s : \A y \in s : x <= y
         IN <<m>> \o SortedSeq(s \ {m})
np_unique(a) == SortedSeq({ a[i] : i \in 1..Len(a) })

\* np.where(a == b)[0]: the positions (from 1) where a holds b, in order
RECURSIVE np_where(_, _, _)
np_where(a, b, from) ==
    IF from > Len(a) THEN <<>>
    ELSE (IF a[from] = b THEN <<from>> ELSE <<>>) \o np_where(a, b, from + 1)

\* reverse_dict of tract_profiles: uid -> name, whole_brain left out
reverse_dict(bundle_dict) ==
    LET named == { b \in 1..Len(bundle_dict) : bundle_dict[b].name # "whole_brain" }
    IN [ u \in { bundle_dict[b].uid : b \in named } |->
           bundle_dict[CHOOSE b \in named :
                          /\ bundle_dict[b].uid = u
                          /\ \A c \in named : bundle_dict[c].uid = u => c <= b].name ]

\* afq_profile(scalar_data, this_sl, dwi_affine, weights): n_points values
afq_profile(scalar_file, this_sl, weights) ==
    [ node \in 1..NPoints |-> <<scalar_file, this_sl, node - 1>> ]

\* [x] * n
Repeat(x, n) == [ i \in 1..n |-> x ]

\* node numbers counted from one
np_arange_from_one(n) == [ i \in 1..n |-> i ]

\* list(np.arange(n))
np_arange(n) == [ i \in 1..n |-> i - 1 ]

\* the loop of tract_profiles over the uids of the tractogram, from uid number k:
\* the error, bundle_names, node_numbers and profiles
RECURSIVE ProfilesFrom(_, _, _, _, _, _)
ProfilesFrom(bundle_dict, trk, scalar_dict, weights, k, acc) ==
    LET uids == np_unique(trk)
        b == uids[k]
        idx == np_where(trk, b, 1)
        this_profile == [ ii \in 1..Len(scalar_dict) |->
                            afq_profile(scalar_dict[ii][2], idx, weights) ]
    IN IF k > Len(uids) THEN acc
       ELSE IF b \notin DOMAIN reverse_dict(bundle_dict)
       THEN [acc EXCEPT !.err = Err("KeyError", "reverse_dict")]
       ELSE IF Len(scalar_dict) = 0
       THEN [acc EXCEPT !.err = Err("IndexError", "this_profile")]
       ELSE ProfilesFrom(bundle_dict, trk, scalar_dict, weights, k + 1,
               [ err |-> NoErr,
                 bundle_names |-> acc.bundle_names
                     \o Repeat(reverse_dict(bundle_dict)[b], Len(this_profile[1])),
                 node_numbers |-> acc.node_numbers \o np_arange(Len(this_profile[1])),
                 profiles |-> [ ii \in 1..Len(scalar_dict) |->
                                  acc.profiles[ii] \o this_profile[ii] ] ])

\* profile_dframe of tract_profiles: the columns by name, in order
profile_dframe(bundle_dict, trk, scalar_dict, weights) ==
    LET r == ProfilesFrom(bundle_dict, trk, scalar_dict, weights, 1,
                 [ err |-> NoErr, bundle_names |-> <<>>, node_numbers |-> <<>>,
                   profiles |-> [ ii \in 1..Len(scalar_dict) |-> <<>> ] ])
    IN [ err |-> r.err,
         columns |-> << <<"tractID", r.bundle_names>>, <<"nodeID", r.node_numbers>> >>
                       \o [ ii \in 1..Len(scalar_dict) |->
                              <<scalar_dict[ii][1], r.profiles[ii]>> ] ]

\* aus.tgram_to_bundles(tg, bundle_dict, img): for every bundle of bundle_dict but
\* whole_brain, in order, its name and the positions of its streamlines
tgram_to_bundles(tg, bundle_dict) ==
    LET named == np_where([ b \in 1..Len(bundle_dict) |->
                              bundle_dict[b].name # "whole_brain" ], TRUE, 1)
    IN [ i \in 1..Len(named) |->
           << bundle_dict[named[i]].name, np_where(tg, bundle_dict[named[i]].uid, 1) >> ]

\* the inner loop of export_sl_counts: one count per key of bundles
CountsOf(tg, bundles) ==
    [ i \in 1..Len(bundles) |->
        IF bundles[i][1] = "whole_brain" THEN Len(tg) ELSE Len(bundles[i][2]) ]

\* counts_df of export_sl_counts: bundles is bound anew by each pass of the loop
\* over the two files, and the index is what the last pass bound it to
counts_df(bundle_dict, clean_tg, tg) ==
    LET sl_counts_clean == CountsOf(clean_tg, tgram_to_bundles(clean_tg, bundle_dict))
        sl_counts == CountsOf(tg, tgram_to_bundles(tg, bundle_dict))
        bundles == tgram_to_bundles(tg, bundle_dict)
        index == [ i \in 1..Len(bundles) |-> bundles[i][1] ]
    IN IF Len(sl_counts) # Len(index) \/ Len(sl_counts_clean) # Len(index)
       THEN [ err |-> Err("ValueError", "index"), index |-> <<>>,
              n_streamlines |-> <<>>, n_streamlines_clean |-> <<>> ]
       ELSE [ err |-> NoErr, index |-> index,
              n_streamlines |-> sl_counts, n_streamlines_clean |-> sl_counts_clean ]

\* the bundle labels a tractogram may carry
Uids == {1, 2, 3}

\* what cleaning may leave of tractogram tg
Cleaned(tg) ==
    { q \in SeqsUpTo(Uids, MaxStreamlines) :
        \/ q = tg
        \/ Len(q) < Len(tg) /\ \A i \in 1..Len(q) : \E j \in 1..Len(tg) : q[i] = tg[j] }

ScalarDicts ==
    { <<>>,
      << <<"dti_fa", "dti_fa_file">> >>,
      << <<"dti_fa", "dti_fa_file">>, <<"t1", "t1_file">> >> }

\* the tables built: the function and its arguments
TableCalls ==
    { [fn |-> "tract_profiles", bundle_dict |-> bd, clean_tg |-> tg,
       scalar_dict |-> sc, profile_weights |-> pw] :
        bd \in {BundleDictA, BundleDictB, BundleDictW},
        tg \in SeqsUpTo(Uids, MaxStreamlines), sc \in ScalarDicts,
        pw \in {"gauss", "median"} }
    \cup UNION { { [fn |-> "export_sl_counts", bundle_dict |-> bd, clean_tg |-> ctg,
                    tg |-> tg] : ctg \in Cleaned(tg) } :
                 bd \in {BundleDictA, BundleDictB, BundleDictW},
                 tg \in SeqsUpTo(Uids, MaxStreamlines) }

InitTables ==
    /\ subses_dict \in Subjects
    /\ cfg \in TableCalls
    /\ kwargs = EmptyMap
    /\ plan = EmptyMap
    /\ cyclic = FALSE
    /\ mem = EmptyMap
    /\ disk = EmptyMap
    /\ nsess = 1
    /\ req = ""
    /\ ret = <<>>
    /\ err = NoErr
    /\ log = <<>>
    /\ comp = <<>>
    /\ wrote = {}
    /\ earlier = EmptyMap
    /\ before = None
    /\ made = EmptyMap

\* tract_profiles builds its table
BuildProfiles ==
    /\ req = "" /\ cfg.fn = "tract_profiles"
    /\ LET r == profile_dframe(cfg.bundle_dict, cfg.clean_tg, cfg.scalar_dict,
                               cfg.profile_weights)
       IN /\ req' = "tract_profiles"
          /\ err' = r.err
          /\ ret' = IF r.err = NoErr THEN r.columns ELSE <<>>
    /\ UNCHANGED <<made, subses_dict, cfg, kwargs, plan, cyclic, mem, disk, nsess, log,
                   comp, wrote, earlier, before>>

\* export_sl_counts builds its table
BuildCounts ==
    /\ req = "" /\ cfg.fn = "export_sl_counts"
    /\ LET r == counts_df(cfg.bundle_dict, cfg.clean_tg, cfg.tg)
       IN /\ req' = "export_sl_counts"
          /\ err' = r.err
          /\ ret' = IF r.err = NoErr
                    THEN << <<"index", r.index>>, <<"n_streamlines", r.n_streamlines>>,
                            <<"n_streamlines_clean", r.n_streamlines_clean>> >>
                    ELSE <<>>
    /\ UNCHANGED <<made, subses_dict, cfg, kwargs, plan, cyclic, mem, disk, nsess, log,
                   comp, wrote, earlier, before>>

NextTables ==
    \/ BuildProfiles
    \/ BuildCounts

SpecTables == InitTables /\ [][NextTables]_vars

\* the distinct uids of a tractogram
UidsIn(tg) == { tg[i] : i \in 1..Len(tg) }

CountIn(tg, uid) == Cardinality({ i \in 1..Len(tg) : tg[i] = uid })

\* C25: the streamline-count table has one row per bundle name, whole_brain
\* among them, each row with the counts of that bundle in bundles_file and in
\* clean_bundles_file, the whole_brain row with the totals of the two files; the
\* columns are as long as the index.
C25_CountsTableRows ==
    req = "export_sl_counts" =>
       /\ err = NoErr
       /\ Len(ret[2][2]) = Len(ret[1][2]) /\ Len(ret[3][2]) = Len(ret[1][2])
       /\ { ret[1][2][i] : i \in 1..Len(ret[1][2]) }
             = { cfg.bundle_dict[b].name : b \in 1..Len(cfg.bundle_dict) }
                  \cup {"whole_brain"}
       /\ \A i \in 1..Len(ret[1][2]) :
             IF ret[1][2][i] = "whole_brain"
             THEN ret[2][2][i] = Len(cfg.tg) /\ ret[3][2][i] = Len(cfg.clean_tg)
             ELSE \E b \in 1..Len(cfg.bundle_dict) :
                     /\ cfg.bundle_dict[b].name = ret[1][2][i]
                     /\ ret[2][2][i] = CountIn(cfg.tg, cfg.bundle_dict[b].uid)
                     /\ ret[3][2][i] = CountIn(cfg.clean_tg, cfg.bundle_dict[b].uid)

\* the name get_scalar_dict stores a scalar under
ScalarKey(scalar) == IF scalar.kind = "str" THEN Lower[scalar.name] ELSE scalar.name

\* C22: the dictionary get_scalar_dict returns holds every string scalar under
\* its lower-cased name with the value of data_imap["<lower-cased name>_file"],
\* every scalar Definition under its name with the value of
\* mapping_imap["<name>_file"], and one entry per distinct resulting name.
C22_ScalarNamesLowerCased ==
    (req = "get_scalar_dict" /\ err = NoErr) =>
       /\ \A i \in 1..Len(cfg.scalars) :
             \E j \in 1..Len(ret) :
                ret[j] = << ScalarKey(cfg.scalars[i]),
                            << IF cfg.scalars[i].kind = "str" THEN "data_imap"
                               ELSE "mapping_imap",
                               FileKey[ScalarKey(cfg.scalars[i])] >> >>
       /\ Len(ret) = Cardinality({ ScalarKey(cfg.scalars[i]) : i \in 1..Len(cfg.scalars) })
       /\ \A j, k \in 1..Len(ret) : ret[j][1] = ret[k][1] => j = k

\* C22 witness: dti_FA and dti_fa were both listed, with a scalar Definition
C22_BothCasesAndDefinition ==
    /\ req = "get_scalar_dict" /\ err = NoErr
    /\ InSeq(cfg.scalars, StrScalar("dti_FA")) /\ InSeq(cfg.scalars, StrScalar("dti_fa"))
    /\ InSeq(cfg.scalars, DefScalar("t1"))
    /\ Len(ret) = 2

\* C24: export_rois returns, for every bundle in order, its name with one path
\* per ROI in ROI order, results_dir/ROIs/<prefix>_desc-ROI-<bundle>-<index
\* from 1>-<include or exclude>.nii.gz with include exactly when the ROI's rule
\* is true; every returned path is a file on disk; and the value is what an
\* earlier identical request returned, whether the files were computed or found.
C24_RoiPathsPerBundle ==
    (req = "rois_file" /\ err = NoErr) =>
       /\ Len(ret) = Len(kwargs.bundle_dict)
       /\ \A b \in 1..Len(ret) :
             LET bundle == kwargs.bundle_dict[b]
             IN /\ ret[b][1] = bundle.name
                /\ Len(ret[b][2]) = Len(bundle.ROIs)
                /\ \A i \in 1..Len(bundle.ROIs) :
                      /\ ret[b][2][i] =
                            subses_dict.results_dir \o <<"/", "ROIs", "/">>
                               \o SplitDot0(Basename(subses_dict.dwi_file))
                               \o <<"_desc-ROI-", bundle.name, "-", IntStr(i), "-",
                                    IF bundle.rules[i] THEN "include" ELSE "exclude",
                                    ".", "nii", ".", "gz">>
                      /\ ret[b][2][i] \in DOMAIN disk
       /\ ~IsNone(before) => ret = Get(before)

\* C24 witness: the ROI files of two bundles, one with an exclusion ROI, were
\* found on disk by a later session and returned without being computed
C24_CachedRoisReturned ==
    /\ req = "rois_file" /\ err = NoErr
    /\ Len(ret) = 2 /\ nsess > 1
    /\ comp = <<>>
    /\ ~IsNone(before)

\* the tractogram file of a bundle in a folder of results_dir, named by the
\* subject/session prefix and the parameter fingerprint
BundleTrk(sd, kw, folder, name) ==
    sd.results_dir \o <<"/", folder, "/">>
       \o SplitDot0(Basename(sd.dwi_file))
       \o <<"_space-RASMM_model-", kw.tracking_params.odf_model,
            "_desc-", kw.tracking_params.directions,
            "-", Get(kw.segmentation_params).seg_algo,
            "-", name, "_tractography", ".", "trk">>

\* C23: after export_bundles has completed, each of the folders clean_bundles and
\* bundles of results_dir holds, for every bundle but whole_brain, the bundle's
\* tractogram file and beside it the .json sidecar of the same name, and holds
\* no file for whole_brain.
C23_BundleFilesExported ==
    (req = "indiv_bundles" /\ err = NoErr) =>
       \A folder \in {"clean_bundles", "bundles"} :
          \A b \in 1..Len(kwargs.bundle_dict) :
             LET P == BundleTrk(subses_dict, kwargs, folder, kwargs.bundle_dict[b].name)
                 sidecar == Join(Dirname(P), SplitDot0(Basename(P)) \o <<".", "json">>)
             IN IF kwargs.bundle_dict[b].name = "whole_brain"
                THEN P \notin DOMAIN disk
                ELSE /\ P \in DOMAIN disk /\ disk[P].kind = "data"
                     /\ sidecar \in DOMAIN disk /\ disk[sidecar].kind = "meta"

\* ---------------------------------------------------------------------------
\* The streamline indices recorded by clean_bundles
\* ---------------------------------------------------------------------------

\* the sidecar clean_bundles reads the indices of segment from
IdxFile(bundles_file) == SplitDot0(bundles_file) \o <<".", "json">>

\* C26: when clean_params return_idx is true, clean_bundles succeeds for every
\* bundles_file the plan hands to it and leaves the kept indices in the sidecar
\* of clean_bundles_file, also when bundles_file was made with
\* segmentation_params return_idx false (results_dir without a dot, so that the
\* sidecar of bundles_file is where clean_bundles looks for it)
C26_CleanIdxRecorded ==
    ( /\ req = "clean_bundles_file"
      /\ EffectiveClean(kwargs).return_idx
      /\ SplitDot0(subses_dict.results_dir) = subses_dict.results_dir ) =>
        /\ err = NoErr
        /\ LET sidecar == IdxFile(ret[1])
           IN /\ sidecar \in DOMAIN disk
              /\ "idx" \in DOMAIN disk[sidecar].meta

\* ---------------------------------------------------------------------------
\* The parameters of a session while its tasks run
\* ---------------------------------------------------------------------------

\* segmentation plans whose caller gives no segmentation_params, or gives
\* presegment_bundle_dict in them: None, a plain dictionary or a BundleDict
ParamCfgs ==
    { [DefaultCfg EXCEPT !.plan_kind = "segmentation", !.segmentation_params = sp] :
        sp \in { None }
              \cup { Some([presegment_bundle_dict |-> v]) :
                       v \in { [py |-> "NoneType"], PresegDict,
                               BundleDict(PresegDict, "afq", "reg_template") } }
              \cup { Some([seg_algo |-> "reco", presegment_bundle_dict |-> PresegDict]) } }

InitParams ==
    /\ subses_dict \in Subjects
    /\ cfg \in ParamCfgs
    /\ kwargs = BuildKwargs(cfg)
    /\ plan = BuildPlan(cfg)
    /\ cyclic = HasCycle(plan)
    /\ mem = EmptyMap
    /\ disk = EmptyMap
    /\ nsess = 1
    /\ req = ""
    /\ ret = <<>>
    /\ err = NoErr
    /\ log = <<>>
    /\ comp = <<>>
    /\ wrote = {}
    /\ earlier = EmptyMap
    /\ before = None
    /\ made = EmptyMap

\* a new process, or a request of an output whose files carry the parameter
\* fingerprint or of indiv_bundles
NextParams ==
    \/ Restart
    \/ \E o \in {"bundles_file", "clean_bundles_file", "indiv_bundles",
                  "sl_counts_file", "profiles_file"} : Request(o)

SpecParams == InitParams /\ [][NextParams]_vars

\* the fingerprint that the names of the session's artifacts carry
SessionFingerprint(kw) ==
    FingerprintOf(kw.tracking_params, Get(kw.segmentation_params))

\* C27: the tasks of a session leave its parameters as the plan was built with
\* them, export_bundles leaving segmentation_params as it was, so the fingerprint
\* of the parameters is the same before and after any task and every
\* fingerprinted artifact of the session carries it, whatever the order of the
\* requests
C27_TasksLeaveParametersUnchanged ==
    /\ kwargs = BuildKwargs(cfg)
    /\ SessionFingerprint(kwargs) = SessionFingerprint(BuildKwargs(cfg))
    /\ \A o \in DOMAIN mem \cap FileOutputs :
          \A i \in 1..Len(mem[o]) :
             mem[o][i] \in FingerprintedNames(subses_dict, BuildKwargs(cfg))

====
